---------------------------- MODULE Spec2Model ----------------------------
(***************************************************************************)
(* A model of the access resolver (pm/utils/permission_helpers.py) and of  *)
(* the completion cascade (pm/services/auto_completion.py, Task.save) of   *)
(* the clickpm project-management backend.                                 *)
(*                                                                         *)
(* Three specifications share the variables:                               *)
(*   Spec           the membership / grant / role rows change through the  *)
(*                  workspace, project, role and user endpoints;           *)
(*   SpecCascade    tasks are created, saved and deleted and statuses are  *)
(*                  edited, one request at a time;                         *)
(*   SpecConcurrent two task-update requests run statement by statement.   *)
(***************************************************************************)
EXTENDS Integers, FiniteSets, Sequences, Bags, TLC

(***************************************************************************)
(* The rows that exist.  Users, roles and the containment tree above the   *)
(* tasks are fixed; the rows hanging off them are the state.               *)
(***************************************************************************)
Users == {"u1", "u2"}

Workspaces == {"w1"}

Projects == {"p1", "p2"}

\* Spec explores the rows attached to these projects; the other projects keep
\* the rows they were created with
ManagedProjects == {"p1"}

Milestones == {"m1", "m2"}

Sprints == {"s1", "s2"}

Roles == {"Project Admin"}

NoRole == "null"

Permissions == {"project.edit", "task.edit"}

Visibilities == {"public", "private"}

\* how many task rows can exist
NumTasks == 2

\* how many requests SpecConcurrent runs side by side
NumRequests == 2

Requests == 1..NumRequests

Tasks == 1..NumTasks

\* the value of a task slot with no row
NoTask == [sprint |-> "null", status |-> "null"]

\* Task.STATUS_CHOICES
TaskStatuses == {"To-do", "In Progress", "Review", "Done"}
\* the statuses the requests explored send: Done and two of the statuses that
\* are not Done (no code modelled here tells one non-Done status from another)
RequestStatuses == {st \in TaskStatuses : st # "Review"}

\* Sprint.status, Milestone.status and Project.status are free text with the
\* default 'Not Started'; the cascade tells 'Completed' from everything else
EntityStatuses == {"Not Started", "Completed"}

\* Notification.actor of a system notification
NoActor == "null"
NoUser == "null"
NoAudit == "null"

\* Workspace.owner
WorkspaceOwner(w) == "u1"

\* Project.workspace
ProjectWorkspace(p) == "w1"

\* Milestone.project: p1 holds both milestones, p2 holds none
MilestoneProject(m) == "p1"

\* Sprint.milestone: m1 holds both sprints, m2 holds none
SprintMilestone(s) == "m1"

VARIABLES
    workspaceMembers,   \* WorkspaceMember rows: [workspace, user, is_admin]
    projectMembers,     \* ProjectMember rows: <<user, project>>
    accessGrants,       \* WorkspaceProjectAccess rows
    visibility,         \* Project.visibility
    userRole,           \* User.role
    rolePermissions,    \* RolePermission rows: <<role, permission_type>>
    tasks,              \* Task rows: [sprint, status], or NoTask
    sprintStatus,       \* Sprint.status
    milestoneStatus,    \* Milestone.status
    projectStatus,      \* Project.status
    last,               \* the request served last: the operation, whether it
                        \* called trigger_auto_completion, the sprint the
                        \* cascade examined, the status writes in order, and
                        \* the Notification rows created
    req,                \* SpecConcurrent: per request in flight, its position
                        \* in Task.save and the cascade, its local variables
                        \* and in-memory model instances
    assignee,           \* Task.assignee, NoUser when null
    reporter,           \* Task.reporter, NoUser when null
    audit,              \* SpecAudit: one audited entity, the ActivityLog entry
                        \* written last and how the last request ended
    log,                \* SpecLog: the ActivityLog table, oldest entry first
    userRows,           \* SpecLog: the User rows that exist
    dependencies,       \* SpecDeps: TaskDependency rows [task, depends_on, type]
    scope               \* SpecScope: over two workspaces, the WorkspaceMember
                        \* rows, Project.workspace and the grant rows

accessVars == <<workspaceMembers, projectMembers, accessGrants, visibility,
                userRole, rolePermissions>>

hierarchyVars == <<tasks, sprintStatus, milestoneStatus, projectStatus>>

peopleVars == <<assignee, reporter>>

recordVars == <<log, userRows, dependencies, scope>>

vars == <<accessVars, hierarchyVars, last, req, peopleVars, audit, recordVars>>

(***************************************************************************)
(* permission_helpers.py                                                   *)
(***************************************************************************)
\* variant: the permission of any role counts, whatever the user's role
has_role_permission_of_any_role(user, permission_type) ==
    \E rp \in rolePermissions : rp[2] = permission_type

has_role_permission(user, permission_type) ==
    IF userRole[user] = NoRole
    THEN FALSE
    ELSE <<userRole[user], permission_type>> \in rolePermissions

is_workspace_member(user, workspace) ==
    \E m \in workspaceMembers : m.workspace = workspace /\ m.user = user

is_workspace_admin(user, workspace) ==
    IF WorkspaceOwner(workspace) = user
    THEN TRUE
    ELSE \E m \in workspaceMembers :
            m.workspace = workspace /\ m.user = user /\ m.is_admin

\* can_user_view_project with rule 5 answering for every user, not only for
\* the members of the project's workspace
can_user_view_project_public_to_all(user, project) ==
    \/ <<user, project>> \in projectMembers
    \/ WorkspaceOwner(ProjectWorkspace(project)) = user
    \/ \E m \in workspaceMembers :
          m.workspace = ProjectWorkspace(project) /\ m.user = user /\ m.is_admin
    \/ \E g \in accessGrants : g.user = user /\ g.project = project /\ g.can_view
    \/ visibility[project] = "public"

\* can_user_view_project without rule 4, the explicit grant
can_user_view_project_no_grant(user, project) ==
    \/ <<user, project>> \in projectMembers
    \/ WorkspaceOwner(ProjectWorkspace(project)) = user
    \/ \E m \in workspaceMembers :
          m.workspace = ProjectWorkspace(project) /\ m.user = user /\ m.is_admin
    \/ /\ visibility[project] = "public"
       /\ \E m \in workspaceMembers :
             m.workspace = ProjectWorkspace(project) /\ m.user = user

can_user_view_project(user, project) ==
    IF <<user, project>> \in projectMembers
    THEN TRUE
    ELSE IF WorkspaceOwner(ProjectWorkspace(project)) = user
    THEN TRUE
    ELSE IF \E m \in workspaceMembers :
               /\ m.workspace = ProjectWorkspace(project)
               /\ m.user = user
               /\ m.is_admin
    THEN TRUE
    ELSE IF \E g \in accessGrants :
               g.user = user /\ g.project = project /\ g.can_view
    THEN TRUE
    ELSE IF visibility[project] = "public"
    THEN \E m \in workspaceMembers :
            m.workspace = ProjectWorkspace(project) /\ m.user = user
    ELSE FALSE

\* can_user_edit_project with rule 5 trusting the role permission alone
can_user_edit_project_role_alone(user, project) ==
    \/ <<user, project>> \in projectMembers
    \/ WorkspaceOwner(ProjectWorkspace(project)) = user
    \/ \E m \in workspaceMembers :
          m.workspace = ProjectWorkspace(project) /\ m.user = user /\ m.is_admin
    \/ \E g \in accessGrants : g.user = user /\ g.project = project /\ g.can_edit
    \/ <<userRole[user], "project.edit">> \in rolePermissions

can_user_edit_project(user, project) ==
    IF <<user, project>> \in projectMembers
    THEN TRUE
    ELSE IF WorkspaceOwner(ProjectWorkspace(project)) = user
    THEN TRUE
    ELSE IF \E m \in workspaceMembers :
               /\ m.workspace = ProjectWorkspace(project)
               /\ m.user = user
               /\ m.is_admin
    THEN TRUE
    ELSE IF \E g \in accessGrants :
               g.user = user /\ g.project = project /\ g.can_edit
    THEN TRUE
    ELSE IF has_role_permission(user, "project.edit")
    THEN is_workspace_member(user, ProjectWorkspace(project))
    ELSE FALSE

\* variant: the listing leaves out the projects granted explicitly
get_accessible_projects_without_grants(user) ==
    {p \in Projects :
        \/ <<user, p>> \in projectMembers
        \/ is_workspace_admin(user, ProjectWorkspace(p))
        \/ (is_workspace_member(user, ProjectWorkspace(p)) /\ visibility[p] = "public")}

\* variant: the listing shows public projects to everybody
get_accessible_projects_public_to_all(user) ==
    {p \in Projects :
        \/ <<user, p>> \in projectMembers
        \/ is_workspace_admin(user, ProjectWorkspace(p))
        \/ \E g \in accessGrants : g.user = user /\ g.project = p /\ g.can_view
        \/ visibility[p] = "public"}

get_accessible_projects(user) ==
    LET member_projects == {p \in Projects : <<user, p>> \in projectMembers}
        admin_workspaces ==
            {m.workspace : m \in {x \in workspaceMembers : x.user = user /\ x.is_admin}}
        owned_workspaces == {w \in Workspaces : WorkspaceOwner(w) = user}
        all_admin_workspace_ids == admin_workspaces \cup owned_workspaces
        granted_project_ids ==
            {g.project : g \in {x \in accessGrants : x.user = user /\ x.can_view}}
        member_workspace_ids ==
            {m.workspace : m \in {x \in workspaceMembers : x.user = user}}
    IN  {p \in Projects :
            \/ p \in member_projects
            \/ ProjectWorkspace(p) \in all_admin_workspace_ids
            \/ p \in granted_project_ids
            \/ (ProjectWorkspace(p) \in member_workspace_ids /\ visibility[p] = "public")}

(***************************************************************************)
(* permissions.py and the viewsets' get_queryset: who may call an endpoint *)
(***************************************************************************)
\* WorkspaceViewSet.get_queryset
WorkspaceVisibleTo(user, w) ==
    WorkspaceOwner(w) = user \/ is_workspace_member(user, w)

\* ProjectViewSet: get_queryset, then CanViewProject on the object
ProjectReachableBy(user, p) ==
    p \in get_accessible_projects(user) /\ can_user_view_project(user, p)

(***************************************************************************)
(* Initial state: the workspace as WorkspaceCreateUpdateSerializer.create  *)
(* leaves it (the owner is an admin member), private projects, no roles.   *)
(***************************************************************************)
NoScope == "null"

\* no ActivityLog entry yet; every user of the model exists; no dependency
InitRecords ==
    /\ log = <<>>
    /\ userRows = Users
    /\ dependencies = {}
    /\ scope = NoScope

InitAccess ==
    /\ workspaceMembers =
         {[workspace |-> w, user |-> WorkspaceOwner(w), is_admin |-> TRUE] : w \in Workspaces}
    /\ projectMembers = {}
    /\ accessGrants = {}
    /\ visibility = [p \in Projects |-> "private"]
    /\ userRole = [u \in Users |-> NoRole]
    /\ rolePermissions = {}

NoRequest ==
    [op |-> "none", ran |-> FALSE, sprint |-> "null", writes |-> <<>>, created |-> EmptyBag,
     logged |-> {}, caught |-> {}, ok |-> TRUE]

\* a request slot before its request arrives; "unloaded" marks a related
\* instance that has not been fetched yet.  old_value is the status in the
\* old_state perform_update captures, prior the persisted status that the
\* request's own save overwrote
IdleRequest ==
    [pc |-> "idle", task |-> 0, sprint |-> "null", status |-> "null",
     old_status |-> "None", old_value |-> "None", prior |-> "None",
     sprint_status |-> "unloaded", milestone_status |-> "unloaded",
     project_status |-> "unloaded",
     total |-> 0, writes |-> <<>>, created |-> EmptyBag]

InitHierarchy ==
    /\ tasks = [t \in Tasks |-> NoTask]
    /\ sprintStatus = [s \in Sprints |-> "Not Started"]
    /\ milestoneStatus = [m \in Milestones |-> "Not Started"]
    /\ projectStatus = [p \in Projects |-> "Not Started"]
    /\ last = NoRequest
    /\ req = [r \in Requests |-> IdleRequest]
    /\ assignee = [t \in Tasks |-> NoUser]
    /\ reporter = [t \in Tasks |-> NoUser]
    /\ audit = NoAudit
    /\ InitRecords

Init == InitAccess /\ InitHierarchy

(***************************************************************************)
(* WorkspaceViewSet                                                        *)
(***************************************************************************)
\* add_member: get_or_create, and an existing row has its is_admin replaced
AddWorkspaceMember(actor, w, u, is_admin) ==
    /\ WorkspaceVisibleTo(actor, w)
    /\ is_workspace_member(actor, w)
    /\ workspaceMembers' =
         {m \in workspaceMembers : ~(m.workspace = w /\ m.user = u)}
            \cup {[workspace |-> w, user |-> u, is_admin |-> is_admin]}
    /\ UNCHANGED <<projectMembers, accessGrants, visibility, userRole, rolePermissions>>
    /\ UNCHANGED <<hierarchyVars, last, req, peopleVars, audit, recordVars>>

\* remove_member: workspace.owner_id == user_id compares the integer column
\* with the request's value as it was parsed, so the owner's row is refused
\* only when user_id arrives as a number (as_text = FALSE); the lookup that
\* follows coerces a string.  The member's grants go with the row.
RemoveWorkspaceMember(actor, w, u, as_text) ==
    /\ WorkspaceVisibleTo(actor, w)
    /\ is_workspace_member(actor, w)
    /\ (as_text \/ WorkspaceOwner(w) # u)
    /\ is_workspace_member(u, w)
    /\ workspaceMembers' =
         {m \in workspaceMembers : ~(m.workspace = w /\ m.user = u)}
    /\ accessGrants' =
         {g \in accessGrants : ~(g.workspace = w /\ g.user = u)}
    /\ UNCHANGED <<projectMembers, visibility, userRole, rolePermissions>>
    /\ UNCHANGED <<hierarchyVars, last, req, peopleVars, audit, recordVars>>

\* grant_project_access: update_or_create on (workspace_member, project)
GrantProjectAccess(actor, w, u, p, can_view, can_edit) ==
    /\ WorkspaceVisibleTo(actor, w)
    /\ is_workspace_admin(actor, w)
    /\ is_workspace_member(u, w)
    /\ ProjectWorkspace(p) = w
    /\ accessGrants' =
         {g \in accessGrants : ~(g.workspace = w /\ g.user = u /\ g.project = p)}
            \cup {[workspace |-> w, user |-> u, project |-> p,
                   can_view |-> can_view, can_edit |-> can_edit]}
    /\ UNCHANGED <<workspaceMembers, projectMembers, visibility, userRole, rolePermissions>>
    /\ UNCHANGED <<hierarchyVars, last, req, peopleVars, audit, recordVars>>

\* revoke_project_access
RevokeProjectAccess(actor, w, u, p) ==
    /\ WorkspaceVisibleTo(actor, w)
    /\ is_workspace_admin(actor, w)
    /\ \E g \in accessGrants : g.workspace = w /\ g.user = u /\ g.project = p
    /\ accessGrants' =
         {g \in accessGrants : ~(g.workspace = w /\ g.user = u /\ g.project = p)}
    /\ UNCHANGED <<workspaceMembers, projectMembers, visibility, userRole, rolePermissions>>
    /\ UNCHANGED <<hierarchyVars, last, req, peopleVars, audit, recordVars>>

(***************************************************************************)
(* ProjectViewSet                                                          *)
(***************************************************************************)
\* add_member
AddProjectMember(actor, p, u) ==
    /\ ProjectReachableBy(actor, p)
    /\ <<u, p>> \notin projectMembers
    /\ projectMembers' = projectMembers \cup {<<u, p>>}
    /\ UNCHANGED <<workspaceMembers, accessGrants, visibility, userRole, rolePermissions>>
    /\ UNCHANGED <<hierarchyVars, last, req, peopleVars, audit, recordVars>>

\* remove_member
RemoveProjectMember(actor, p, u) ==
    /\ ProjectReachableBy(actor, p)
    /\ <<u, p>> \in projectMembers
    /\ projectMembers' = projectMembers \ {<<u, p>>}
    /\ UNCHANGED <<workspaceMembers, accessGrants, visibility, userRole, rolePermissions>>
    /\ UNCHANGED <<hierarchyVars, last, req, peopleVars, audit, recordVars>>

\* perform_update with a new visibility
SetProjectVisibility(actor, p, v) ==
    /\ ProjectReachableBy(actor, p)
    /\ visibility[p] # v
    /\ visibility' = [visibility EXCEPT ![p] = v]
    /\ UNCHANGED <<workspaceMembers, projectMembers, accessGrants, userRole, rolePermissions>>
    /\ UNCHANGED <<hierarchyVars, last, req, peopleVars, audit, recordVars>>

(***************************************************************************)
(* RoleViewSet and UserViewSet                                             *)
(***************************************************************************)
\* assign_permission: get_or_create
AssignPermission(role, permission_type) ==
    /\ <<role, permission_type>> \notin rolePermissions
    /\ rolePermissions' = rolePermissions \cup {<<role, permission_type>>}
    /\ UNCHANGED <<workspaceMembers, projectMembers, accessGrants, visibility, userRole>>
    /\ UNCHANGED <<hierarchyVars, last, req, peopleVars, audit, recordVars>>

\* revoke_permission
RevokePermission(role, permission_type) ==
    /\ <<role, permission_type>> \in rolePermissions
    /\ rolePermissions' = rolePermissions \ {<<role, permission_type>>}
    /\ UNCHANGED <<workspaceMembers, projectMembers, accessGrants, visibility, userRole>>
    /\ UNCHANGED <<hierarchyVars, last, req, peopleVars, audit, recordVars>>

\* user update with role_id
SetUserRole(u, role) ==
    /\ userRole[u] # role
    /\ userRole' = [userRole EXCEPT ![u] = role]
    /\ UNCHANGED <<workspaceMembers, projectMembers, accessGrants, visibility, rolePermissions>>
    /\ UNCHANGED <<hierarchyVars, last, req, peopleVars, audit, recordVars>>

(***************************************************************************)
(* services/auto_completion.py, run within one request.  A run carries the *)
(* three status columns, the status writes made so far and the             *)
(* Notification rows created so far; tk is the Task table.  A call that    *)
(* raised (run.raised) ends the run: the statements after it are skipped.  *)
(***************************************************************************)
TasksOf(tk, s) == {t \in Tasks : tk[t] # NoTask /\ tk[t].sprint = s}

SprintsOf(m) == {s \in Sprints : SprintMilestone(s) = m}

MilestonesOf(p) == {m \in Milestones : MilestoneProject(m) = p}

ProjectsOf(w) == {p \in Projects : ProjectWorkspace(p) = w}

\* project.members.all()
ProjectMemberUsers(p) == {u \in Users : <<u, p>> \in projectMembers}

\* workspace.members.all()
WorkspaceMemberUsers(w) == {m.user : m \in {x \in workspaceMembers : x.workspace = w}}

Notification(recipient, obj_type, target) ==
    [recipient |-> recipient, actor |-> NoActor, obj_type |-> obj_type, target |-> target]

\* the order in which members.all() yields the users
UserOrder == <<"u1", "u2">>

Rank(u) == CHOOSE i \in DOMAIN UserOrder : UserOrder[i] = u

\* the members whose row is created before the first create that raises;
\* run.failing holds the recipients for whom Notification.objects.create raises
NotifiedBeforeFailure(run, members) ==
    {u \in members : \A v \in members : Rank(v) <= Rank(u) => v \notin run.failing}

\* the loop under try / except Exception: the rows created before an
\* exception stay, the exception is logged and the method returns normally
CreateNotifications(run, members, obj_type, obj) ==
    [run EXCEPT
        !.created = @ (+) SetToBag({Notification(u, obj_type, obj) :
                                       u \in NotifiedBeforeFailure(run, members)}),
        !.caught = IF members \cap run.failing # {} THEN @ \cup {obj_type} ELSE @]

\* variant: no try / except, the exception leaves the cascade
_create_completion_notification_uncaught(run, obj, obj_type) ==
    LET project == IF obj_type = "Sprint" THEN MilestoneProject(SprintMilestone(obj))
                   ELSE IF obj_type = "Milestone" THEN MilestoneProject(obj)
                   ELSE obj
        after == CreateNotifications(run, ProjectMemberUsers(project), obj_type, obj)
    IN  IF obj_type \notin {"Sprint", "Milestone", "Project"}
        THEN run
        ELSE [after EXCEPT !.raised = obj_type \in after.caught]

_create_workspace_completion_notification(run, workspace) ==
    CreateNotifications(run, WorkspaceMemberUsers(workspace), "Workspace", workspace)

_create_completion_notification(run, obj, obj_type) ==
    LET project == IF obj_type = "Sprint" THEN MilestoneProject(SprintMilestone(obj))
                   ELSE IF obj_type = "Milestone" THEN MilestoneProject(obj)
                   ELSE obj
    IN  IF obj_type \notin {"Sprint", "Milestone", "Project"}
        THEN run
        ELSE CreateNotifications(run, ProjectMemberUsers(project), obj_type, obj)

_check_and_complete_workspace(run, workspace) ==
    LET total_projects == Cardinality(ProjectsOf(workspace))
        completed_projects ==
            Cardinality({p \in ProjectsOf(workspace) : run.projectStatus[p] = "Completed"})
    IN  IF total_projects = 0
        THEN run
        ELSE IF completed_projects = total_projects
        THEN _create_workspace_completion_notification(run, workspace)
        ELSE run

\* variant: the project is written again although it is already Completed
_check_and_complete_project_rewrites(run, project) ==
    LET total_milestones == Cardinality(MilestonesOf(project))
        completed_milestones ==
            Cardinality({m \in MilestonesOf(project) : run.milestoneStatus[m] = "Completed"})
        written == [run EXCEPT !.projectStatus[project] = "Completed",
                               !.writes = Append(@, project)]
    IN  IF total_milestones = 0
        THEN run
        ELSE IF completed_milestones = total_milestones
        THEN LET notified == _create_completion_notification(written, project, "Project")
             IN  IF notified.raised
                 THEN notified
                 ELSE _check_and_complete_workspace(notified, ProjectWorkspace(project))
        ELSE run

_check_and_complete_project(run, project) ==
    LET total_milestones == Cardinality(MilestonesOf(project))
        completed_milestones ==
            Cardinality({m \in MilestonesOf(project) : run.milestoneStatus[m] = "Completed"})
        written == [run EXCEPT !.projectStatus[project] = "Completed",
                               !.writes = Append(@, project)]
    IN  IF total_milestones = 0
        THEN run
        ELSE IF completed_milestones = total_milestones
                /\ run.projectStatus[project] # "Completed"
        THEN LET notified == _create_completion_notification(written, project, "Project")
             IN  IF notified.raised
                 THEN notified
                 ELSE _check_and_complete_workspace(notified, ProjectWorkspace(project))
        ELSE run

_check_and_complete_milestone(run, milestone) ==
    LET total_sprints == Cardinality(SprintsOf(milestone))
        completed_sprints ==
            Cardinality({s \in SprintsOf(milestone) : run.sprintStatus[s] = "Completed"})
        written == [run EXCEPT !.milestoneStatus[milestone] = "Completed",
                               !.writes = Append(@, milestone)]
    IN  IF total_sprints = 0
        THEN run
        ELSE IF completed_sprints = total_sprints
                /\ run.milestoneStatus[milestone] # "Completed"
        THEN LET notified == _create_completion_notification(written, milestone, "Milestone")
             IN  IF notified.raised
                 THEN notified
                 ELSE _check_and_complete_project(notified, MilestoneProject(milestone))
        ELSE run

\* variant: one Done task is enough to complete the sprint
_check_and_complete_sprint_any_done(run, tk, sprint) ==
    LET done_tasks == Cardinality({t \in TasksOf(tk, sprint) : tk[t].status = "Done"})
        written == [run EXCEPT !.sprintStatus[sprint] = "Completed",
                               !.writes = Append(@, sprint)]
    IN  IF done_tasks > 0 /\ run.sprintStatus[sprint] # "Completed"
        THEN LET notified == _create_completion_notification(written, sprint, "Sprint")
             IN  IF notified.raised
                 THEN notified
                 ELSE _check_and_complete_milestone(notified, SprintMilestone(sprint))
        ELSE run

\* variant: a sprint that is already Completed is completed again
_check_and_complete_sprint_rewrites(run, tk, sprint) ==
    LET total_tasks == Cardinality(TasksOf(tk, sprint))
        done_tasks == Cardinality({t \in TasksOf(tk, sprint) : tk[t].status = "Done"})
        written == [run EXCEPT !.sprintStatus[sprint] = "Completed",
                               !.writes = Append(@, sprint)]
    IN  IF total_tasks = 0
        THEN run
        ELSE IF done_tasks = total_tasks
        THEN LET notified == _create_completion_notification(written, sprint, "Sprint")
             IN  IF notified.raised
                 THEN notified
                 ELSE _check_and_complete_milestone(notified, SprintMilestone(sprint))
        ELSE run

\* variant: a sprint without tasks counts as all done
_check_and_complete_sprint_counts_empty(run, tk, sprint) ==
    LET total_tasks == Cardinality(TasksOf(tk, sprint))
        done_tasks == Cardinality({t \in TasksOf(tk, sprint) : tk[t].status = "Done"})
        written == [run EXCEPT !.sprintStatus[sprint] = "Completed",
                               !.writes = Append(@, sprint)]
    IN  IF done_tasks = total_tasks /\ run.sprintStatus[sprint] # "Completed"
        THEN LET notified == _create_completion_notification(written, sprint, "Sprint")
             IN  IF notified.raised
                 THEN notified
                 ELSE _check_and_complete_milestone(notified, SprintMilestone(sprint))
        ELSE run

\* variant: the milestone is evaluated also when the sprint was already
\* Completed
_check_and_complete_sprint_climbs_anyway(run, tk, sprint) ==
    LET total_tasks == Cardinality(TasksOf(tk, sprint))
        done_tasks == Cardinality({t \in TasksOf(tk, sprint) : tk[t].status = "Done"})
        written == [run EXCEPT !.sprintStatus[sprint] = "Completed",
                               !.writes = Append(@, sprint)]
    IN  IF total_tasks = 0
        THEN run
        ELSE IF done_tasks = total_tasks
        THEN IF run.sprintStatus[sprint] # "Completed"
             THEN LET notified == _create_completion_notification(written, sprint, "Sprint")
                  IN  IF notified.raised
                      THEN notified
                      ELSE _check_and_complete_milestone(notified, SprintMilestone(sprint))
             ELSE _check_and_complete_milestone(run, SprintMilestone(sprint))
        ELSE run

_check_and_complete_sprint(run, tk, sprint) ==
    LET total_tasks == Cardinality(TasksOf(tk, sprint))
        done_tasks == Cardinality({t \in TasksOf(tk, sprint) : tk[t].status = "Done"})
        written == [run EXCEPT !.sprintStatus[sprint] = "Completed",
                               !.writes = Append(@, sprint)]
    IN  IF total_tasks = 0
        THEN run
        ELSE IF done_tasks = total_tasks /\ run.sprintStatus[sprint] # "Completed"
        THEN LET notified == _create_completion_notification(written, sprint, "Sprint")
             IN  IF notified.raised
                 THEN notified
                 ELSE _check_and_complete_milestone(notified, SprintMilestone(sprint))
        ELSE run

\* task is the instance handed in: its sprint and its status
trigger_auto_completion(run, tk, task) ==
    IF task.status # "Done"
    THEN run
    ELSE _check_and_complete_sprint(run, tk, task.sprint)

\* the run as it starts: the persisted columns, nothing written or created,
\* no recipient for whom the creation of a Notification row fails, no
\* exception caught and none leaving the cascade
StartRun ==
    [sprintStatus |-> sprintStatus, milestoneStatus |-> milestoneStatus,
     projectStatus |-> projectStatus, writes |-> <<>>, created |-> EmptyBag,
     failing |-> {}, caught |-> {}, raised |-> FALSE]

\* the persisted columns and the request record after a run; task is the
\* instance the trigger was called with.  logged holds the content types the
\* request wrote an ActivityLog entry for: perform_create, perform_update and
\* perform_destroy log the task, the cascade calls no AuditService method
Commit(run, op, ran, task) ==
    /\ sprintStatus' = run.sprintStatus
    /\ milestoneStatus' = run.milestoneStatus
    /\ projectStatus' = run.projectStatus
    /\ last' = [op |-> op, ran |-> ran,
                sprint |-> IF ran /\ task.status = "Done" THEN task.sprint ELSE "null",
                writes |-> run.writes, created |-> run.created,
                logged |-> IF op \in {"create", "update", "delete"} THEN {"Task"} ELSE {},
                caught |-> run.caught, ok |-> ~run.raised]

(***************************************************************************)
(* Task.save (models/task_models.py) under TaskViewSet                     *)
(***************************************************************************)
\* variant: every save that ends in Done runs the cascade
TaskSave_every_done(op, t, sprint, status) ==
    LET saved == [tasks EXCEPT ![t] = [sprint |-> sprint, status |-> status]]
        edge == status = "Done"
        run == IF edge
               THEN trigger_auto_completion(StartRun, saved,
                                            [sprint |-> sprint, status |-> status])
               ELSE StartRun
    IN  /\ tasks' = saved
        /\ Commit(run, op, edge, [sprint |-> sprint, status |-> status])
        /\ UNCHANGED <<accessVars, peopleVars, audit, recordVars, req>>

\* variant: a save that leaves a task not Done reopens its Completed sprint
TaskSave_reopens(op, t, sprint, status) ==
    LET old_status == IF tasks[t] = NoTask THEN "None" ELSE tasks[t].status
        saved == [tasks EXCEPT ![t] = [sprint |-> sprint, status |-> status]]
        edge == old_status # "Done" /\ status = "Done"
        reopened == IF status # "Done" /\ sprintStatus[sprint] = "Completed"
                    THEN [StartRun EXCEPT !.sprintStatus[sprint] = "In Progress"]
                    ELSE StartRun
        run == IF edge
               THEN trigger_auto_completion(StartRun, saved,
                                            [sprint |-> sprint, status |-> status])
               ELSE reopened
    IN  /\ tasks' = saved
        /\ Commit(run, op, edge, [sprint |-> sprint, status |-> status])
        /\ UNCHANGED <<accessVars, peopleVars, audit, recordVars, req>>

\* Task.save: old_status is the persisted status (None for a new row), the
\* row is written, and the cascade runs on the edge into Done
TaskSave(op, t, sprint, status) ==
    LET old_status == IF tasks[t] = NoTask THEN "None" ELSE tasks[t].status
        saved == [tasks EXCEPT ![t] = [sprint |-> sprint, status |-> status]]
        edge == old_status # "Done" /\ status = "Done"
        run == IF edge
               THEN trigger_auto_completion(StartRun, saved,
                                            [sprint |-> sprint, status |-> status])
               ELSE StartRun
    IN  /\ tasks' = saved
        /\ Commit(run, op, edge, [sprint |-> sprint, status |-> status])
        /\ UNCHANGED <<accessVars, peopleVars, audit, recordVars, req>>

\* TaskViewSet.perform_create
CreateTask(t, sprint, status) ==
    /\ tasks[t] = NoTask
    /\ TaskSave("create", t, sprint, status)

\* TaskViewSet.perform_update, change_status, move_task_to_column
UpdateTask(t, sprint, status) ==
    /\ tasks[t] # NoTask
    /\ TaskSave("update", t, sprint, status)

\* TaskViewSet.perform_destroy
DeleteTask(t) ==
    /\ tasks[t] # NoTask
    /\ tasks' = [tasks EXCEPT ![t] = NoTask]
    /\ Commit(StartRun, "delete", FALSE, NoTask)
    /\ UNCHANGED <<accessVars, peopleVars, audit, recordVars, req>>

\* trigger_auto_completion called directly on a Task instance
TriggerAutoCompletion(sprint, status) ==
    /\ tasks' = tasks
    /\ Commit(trigger_auto_completion(StartRun, tasks, [sprint |-> sprint, status |-> status]),
              "trigger", TRUE, [sprint |-> sprint, status |-> status])
    /\ UNCHANGED <<accessVars, peopleVars, audit, recordVars, req>>

(***************************************************************************)
(* SprintViewSet, MilestoneViewSet, ProjectViewSet: perform_update with a  *)
(* status, and the sprint's finalize action                                *)
(***************************************************************************)
SetSprintStatus(s, v) ==
    /\ sprintStatus[s] # v
    /\ sprintStatus' = [sprintStatus EXCEPT ![s] = v]
    /\ last' = [NoRequest EXCEPT !.op = "set_status", !.logged = {"Sprint"}]
    /\ UNCHANGED <<tasks, milestoneStatus, projectStatus>>
    /\ UNCHANGED <<accessVars, peopleVars, audit, recordVars, req>>

SetMilestoneStatus(m, v) ==
    /\ milestoneStatus[m] # v
    /\ milestoneStatus' = [milestoneStatus EXCEPT ![m] = v]
    /\ last' = [NoRequest EXCEPT !.op = "set_status", !.logged = {"Milestone"}]
    /\ UNCHANGED <<tasks, sprintStatus, projectStatus>>
    /\ UNCHANGED <<accessVars, peopleVars, audit, recordVars, req>>

SetProjectStatus(p, v) ==
    /\ projectStatus[p] # v
    /\ projectStatus' = [projectStatus EXCEPT ![p] = v]
    /\ last' = [NoRequest EXCEPT !.op = "set_status", !.logged = {"Project"}]
    /\ UNCHANGED <<tasks, sprintStatus, milestoneStatus>>
    /\ UNCHANGED <<accessVars, peopleVars, audit, recordVars, req>>

\* the rows the cascade notifies: the workspace as created (its owner is the
\* only member), and both users made members of project p1 by add_member
InitCascade ==
    /\ workspaceMembers =
         {[workspace |-> w, user |-> WorkspaceOwner(w), is_admin |-> TRUE] : w \in Workspaces}
    /\ projectMembers = {<<"u1", "p1">>, <<"u2", "p1">>, <<"u1", "p2">>}
    /\ accessGrants = {}
    /\ visibility = [p \in Projects |-> "private"]
    /\ userRole = [u \in Users |-> NoRole]
    /\ rolePermissions = {}
    /\ InitHierarchy

NextCascade ==
    \/ \E t \in Tasks, s \in Sprints, st \in RequestStatuses : CreateTask(t, s, st)
    \/ \E t \in Tasks, s \in Sprints, st \in RequestStatuses : UpdateTask(t, s, st)
    \/ \E t \in Tasks : DeleteTask(t)
    \/ \E s \in Sprints, st \in RequestStatuses : TriggerAutoCompletion(s, st)
    \/ \E s \in Sprints, v \in EntityStatuses : SetSprintStatus(s, v)
    \/ \E m \in Milestones, v \in EntityStatuses : SetMilestoneStatus(m, v)
    \/ \E p \in Projects, v \in EntityStatuses : SetProjectStatus(p, v)

SpecCascade == InitCascade /\ [][NextCascade]_vars

(***************************************************************************)
(* The cascade's contract, on a step of SpecCascade: unprimed is the       *)
(* persisted state before the request, primed the state after it.          *)
(***************************************************************************)
IsSave(r) == r.op \in {"create", "update"}

\* the task a save step moved into Done
MovedIntoDone(t) ==
    /\ tasks[t].status # "Done"
    /\ tasks'[t] # NoTask
    /\ tasks'[t].status = "Done"

AllTasksDone(tk, s) == \A t \in TasksOf(tk, s) : tk[t].status = "Done"

\* the rows of a bag about one object
RowsAbout(bag, obj_type, target) ==
    {n \in BagToSet(bag) : n.obj_type = obj_type /\ n.target = target}

\* every user of the set has exactly one row about the object in the bag, with
\* no actor, and nobody else has one
OneSystemRowEach(bag, users, obj_type, target) ==
    /\ \A u \in users :
          CopiesIn(Notification(u, obj_type, target), bag) = 1
    /\ \A n \in RowsAbout(bag, obj_type, target) :
          n.recipient \in users /\ n.actor = NoActor

\* C4: when a save moves a task into Done and the task's sprint is not
\* Completed, the sprint keeps its status and no notification is created while
\* a task of the sprint is not Done; once all its tasks are Done the sprint is
\* Completed and each member of its project gets one system notification
\* about the sprint.
SprintCompletesWithLastTask ==
    [][\A t \in Tasks :
          (IsSave(last') /\ MovedIntoDone(t) /\ sprintStatus[tasks'[t].sprint] # "Completed")
          => LET s == tasks'[t].sprint
             IN  IF AllTasksDone(tasks', s)
                 THEN /\ sprintStatus'[s] = "Completed"
                      /\ OneSystemRowEach(last'.created,
                                          ProjectMemberUsers(MilestoneProject(SprintMilestone(s))),
                                          "Sprint", s)
                 ELSE /\ sprintStatus'[s] = sprintStatus[s]
                      /\ last'.created = EmptyBag
                      /\ last'.writes = <<>>]_vars

\* the second of two tasks of a sprint has just become Done and completed it
SecondTaskCompletedSprint ==
    \E s \in Sprints :
        /\ IsSave(last) /\ last.ran /\ last.sprint = s
        /\ Cardinality(TasksOf(tasks, s)) = 2
        /\ s \in {last.writes[i] : i \in DOMAIN last.writes}
        /\ sprintStatus[s] = "Completed"
        /\ BagCardinality(last.created) >= 2

\* one of two tasks of a sprint has just become Done and the sprint waits
FirstTaskLeftSprintOpen ==
    \E s \in Sprints :
        /\ IsSave(last) /\ last.ran /\ last.sprint = s
        /\ Cardinality(TasksOf(tasks, s)) = 2
        /\ ~AllTasksDone(tasks, s)
        /\ sprintStatus[s] # "Completed"

Written(r) == {r.writes[i] : i \in DOMAIN r.writes}

\* C5 as claimed: in the run that flips a sprint, its milestone is written iff
\* it was not Completed and all its sprints are; when the milestone is
\* written, its project is written iff all its milestones are Completed; when
\* the project is written and all projects of the workspace are Completed,
\* every workspace member gets one system notification, and only sprint,
\* milestone and project statuses are written.
UpwardPropagationAsClaimed ==
    [][\A s \in Sprints :
          (last'.ran /\ s \in Written(last'))
          => LET m == SprintMilestone(s)
                 p == MilestoneProject(m)
                 w == ProjectWorkspace(p)
             IN  /\ m \in Written(last')
                       <=> /\ milestoneStatus[m] # "Completed"
                           /\ \A x \in SprintsOf(m) : sprintStatus'[x] = "Completed"
                 /\ m \in Written(last') =>
                       /\ milestoneStatus'[m] = "Completed"
                       /\ p \in Written(last')
                             <=> \A x \in MilestonesOf(p) : milestoneStatus'[x] = "Completed"
                 /\ p \in Written(last') => projectStatus'[p] = "Completed"
                 /\ (p \in Written(last')
                        /\ \A x \in ProjectsOf(w) : projectStatus'[x] = "Completed")
                       => OneSystemRowEach(last'.created, WorkspaceMemberUsers(w),
                                           "Workspace", w)
                 /\ Written(last') \subseteq Sprints \cup Milestones \cup Projects]_vars

\* C5 amended: the project is written iff it was not yet Completed and all its
\* milestones are Completed; the rest as claimed.
UpwardPropagation ==
    [][\A s \in Sprints :
          (last'.ran /\ s \in Written(last'))
          => LET m == SprintMilestone(s)
                 p == MilestoneProject(m)
                 w == ProjectWorkspace(p)
             IN  /\ m \in Written(last')
                       <=> /\ milestoneStatus[m] # "Completed"
                           /\ \A x \in SprintsOf(m) : sprintStatus'[x] = "Completed"
                 /\ m \in Written(last') =>
                       /\ milestoneStatus'[m] = "Completed"
                       /\ p \in Written(last')
                             <=> /\ projectStatus[p] # "Completed"
                                 /\ \A x \in MilestonesOf(p) : milestoneStatus'[x] = "Completed"
                 /\ p \in Written(last') => projectStatus'[p] = "Completed"
                 /\ (p \in Written(last')
                        /\ \A x \in ProjectsOf(w) : projectStatus'[x] = "Completed")
                       => OneSystemRowEach(last'.created, WorkspaceMemberUsers(w),
                                           "Workspace", w)
                 /\ Written(last') \subseteq Sprints \cup Milestones \cup Projects]_vars

\* a run that climbed from the sprint to the workspace
RunReachedWorkspace ==
    /\ last.ran
    /\ Len(last.writes) = 3
    /\ \E w \in Workspaces, u \in Users :
          CopiesIn(Notification(u, "Workspace", w), last.created) = 1

\* C7: a second trigger on the Done task right after a cascade run on its
\* sprint writes no status, creates no notification and leaves the persisted
\* state as the first run left it.
CascadeIdempotent ==
    [][(last.ran /\ last.sprint \in Sprints
          /\ last'.op = "trigger" /\ last'.sprint = last.sprint)
        => /\ last'.writes = <<>>
           /\ last'.created = EmptyBag
           /\ UNCHANGED hierarchyVars]_vars

\* the second of two consecutive runs, the first of which completed the sprint
SecondTriggerAfterCompletion ==
    /\ last.op = "trigger"
    /\ last.sprint \in Sprints
    /\ last.writes = <<>>
    /\ sprintStatus[last.sprint] = "Completed"
    /\ AllTasksDone(tasks, last.sprint)

\* C8: no request sets a sprint without tasks, a milestone without sprints or
\* a project without milestones to Completed through the cascade.
NoVacuousCompletion ==
    [][(last'.op \in {"create", "update", "delete", "trigger"})
        => /\ \A s \in Sprints :
                 TasksOf(tasks', s) = {}
                 => (s \notin Written(last') /\ sprintStatus'[s] = sprintStatus[s])
           /\ \A m \in Milestones :
                 SprintsOf(m) = {}
                 => (m \notin Written(last') /\ milestoneStatus'[m] = milestoneStatus[m])
           /\ \A p \in Projects :
                 MilestonesOf(p) = {}
                 => (p \notin Written(last') /\ projectStatus'[p] = projectStatus[p])]_vars

\* the trigger has run on a Done instance whose sprint holds no task
TriggeredOnEmptySprint ==
    /\ last.op = "trigger"
    /\ last.sprint \in Sprints
    /\ TasksOf(tasks, last.sprint) = {}
    /\ sprintStatus[last.sprint] # "Completed"

\* C9: a save calls the cascade iff the persisted status before it was not
\* Done (or there was no row) and the saved status is Done; any other save
\* changes no sprint, milestone or project status and creates no notification.
EdgeTrigger ==
    [][IsSave(last')
        => /\ last'.ran <=> \E t \in Tasks : MovedIntoDone(t)
           /\ (~\E t \in Tasks : MovedIntoDone(t))
                 => /\ UNCHANGED <<sprintStatus, milestoneStatus, projectStatus>>
                    /\ last'.writes = <<>>
                    /\ last'.created = EmptyBag]_vars

\* a task that was Done has been saved as Done again in a sprint the cascade
\* would complete
DoneSavedAgain ==
    \E s \in Sprints :
        /\ last.op = "update" /\ ~last.ran
        /\ TasksOf(tasks, s) # {}
        /\ AllTasksDone(tasks, s)
        /\ sprintStatus[s] # "Completed"

(***************************************************************************)
(* SpecConcurrent: requests that save a task run side by side, one         *)
(* database statement per step.  Nothing in Task.save or the cascade opens *)
(* a transaction or takes a lock, so the statements of two requests        *)
(* interleave freely.  A related instance (task.sprint, sprint.milestone,  *)
(* milestone.project) is fetched on first access and cached on its parent  *)
(* instance; its status is then read from memory.                          *)
(***************************************************************************)
Step(r, fields) == req' = [req EXCEPT ![r] = fields]

Finish(r, rec) == [rec EXCEPT !.pc = "done"]

\* TaskViewSet update / change_status: get_object fetches the task row; the
\* object permission IsTaskAssignee | CanViewProject walks
\* task.sprint.milestone.project only when the caller is neither assignee nor
\* reporter (preload), which caches the three parents on the instance.
\* perform_update then captures old_state from the fetched instance; the
\* UPDATED entry written when the request finishes carries it as old_value.
BeginUpdate(r, t, status, preload) ==
    /\ req[r].pc = "idle"
    /\ tasks[t] # NoTask
    /\ LET s == tasks[t].sprint
           m == SprintMilestone(s)
       IN  Step(r, [req[r] EXCEPT
                !.pc = "read_old", !.task = t, !.sprint = s, !.status = status,
                !.old_value = tasks[t].status,
                !.sprint_status = IF preload THEN sprintStatus[s] ELSE "unloaded",
                !.milestone_status = IF preload THEN milestoneStatus[m] ELSE "unloaded",
                !.project_status =
                    IF preload THEN projectStatus[MilestoneProject(m)] ELSE "unloaded"])
    /\ UNCHANGED <<accessVars, peopleVars, audit, recordVars, hierarchyVars, last>>

\* Task.save: old_task = Task.objects.get(pk=self.pk)
ReadOldStatus(r) ==
    /\ req[r].pc = "read_old"
    /\ Step(r, [req[r] EXCEPT
            !.pc = "save",
            !.old_status = IF tasks[req[r].task] = NoTask THEN "None"
                           ELSE tasks[req[r].task].status])
    /\ UNCHANGED <<accessVars, peopleVars, audit, recordVars, hierarchyVars, last>>

\* Task.save: super().save(), then the edge test
SaveRow(r) ==
    /\ req[r].pc = "save"
    /\ tasks' = [tasks EXCEPT ![req[r].task] =
                    [sprint |-> req[r].sprint, status |-> req[r].status]]
    /\ LET saved == [req[r] EXCEPT !.prior = tasks[req[r].task].status]
       IN  Step(r, IF req[r].old_status # "Done" /\ req[r].status = "Done"
                   THEN [saved EXCEPT !.pc = "load_sprint"]
                   ELSE Finish(r, saved))
    /\ UNCHANGED <<accessVars, peopleVars, audit, recordVars, sprintStatus, milestoneStatus, projectStatus, last>>

\* trigger_auto_completion: task.sprint
LoadSprint(r) ==
    /\ req[r].pc = "load_sprint"
    /\ Step(r, [req[r] EXCEPT
            !.pc = "count_tasks",
            !.sprint_status = IF @ = "unloaded" THEN sprintStatus[req[r].sprint] ELSE @])
    /\ UNCHANGED <<accessVars, peopleVars, audit, recordVars, hierarchyVars, last>>

\* _check_and_complete_sprint: sprint.tasks.count()
CountTasks(r) ==
    /\ req[r].pc = "count_tasks"
    /\ LET total_tasks == Cardinality(TasksOf(tasks, req[r].sprint))
       IN  Step(r, IF total_tasks = 0
                   THEN Finish(r, req[r])
                   ELSE [req[r] EXCEPT !.pc = "count_done_tasks", !.total = total_tasks])
    /\ UNCHANGED <<accessVars, peopleVars, audit, recordVars, hierarchyVars, last>>

\* variant: the count is taken as if the cascade ran before the task's own
\* row was saved, the task counting with the status it had before
CountDoneTasks_before_save(r) ==
    /\ req[r].pc = "count_done_tasks"
    /\ LET done_tasks ==
               Cardinality({t \in TasksOf(tasks, req[r].sprint) :
                               IF t = req[r].task THEN req[r].old_status = "Done"
                               ELSE tasks[t].status = "Done"})
       IN  Step(r, IF done_tasks = req[r].total /\ req[r].sprint_status # "Completed"
                   THEN [req[r] EXCEPT !.pc = "write_sprint"]
                   ELSE Finish(r, req[r]))
    /\ UNCHANGED <<accessVars, peopleVars, audit, recordVars, hierarchyVars, last>>

\* _check_and_complete_sprint: sprint.tasks.filter(status='Done').count(),
\* then the two tests
CountDoneTasks(r) ==
    /\ req[r].pc = "count_done_tasks"
    /\ LET done_tasks ==
               Cardinality({t \in TasksOf(tasks, req[r].sprint) : tasks[t].status = "Done"})
       IN  Step(r, IF done_tasks = req[r].total /\ req[r].sprint_status # "Completed"
                   THEN [req[r] EXCEPT !.pc = "write_sprint"]
                   ELSE Finish(r, req[r]))
    /\ UNCHANGED <<accessVars, peopleVars, audit, recordVars, hierarchyVars, last>>

\* sprint.status = 'Completed'; sprint.save(update_fields=['status'])
WriteSprint(r) ==
    /\ req[r].pc = "write_sprint"
    /\ sprintStatus' = [sprintStatus EXCEPT ![req[r].sprint] = "Completed"]
    /\ Step(r, [req[r] EXCEPT !.pc = "notify_sprint", !.sprint_status = "Completed",
                              !.writes = Append(@, req[r].sprint)])
    /\ UNCHANGED <<accessVars, peopleVars, audit, recordVars, tasks, milestoneStatus, projectStatus, last>>

\* _create_completion_notification(sprint, 'Sprint'): obj.milestone.project
\* fetches the milestone and the project unless cached, then one row per
\* project member
NotifySprint(r) ==
    /\ req[r].pc = "notify_sprint"
    /\ LET m == SprintMilestone(req[r].sprint)
           p == MilestoneProject(m)
       IN  Step(r, [req[r] EXCEPT
                !.pc = "count_sprints",
                !.milestone_status = IF @ = "unloaded" THEN milestoneStatus[m] ELSE @,
                !.project_status = IF @ = "unloaded" THEN projectStatus[p] ELSE @,
                !.created = @ (+) SetToBag({Notification(u, "Sprint", req[r].sprint) :
                                               u \in ProjectMemberUsers(p)})])
    /\ UNCHANGED <<accessVars, peopleVars, audit, recordVars, hierarchyVars, last>>

\* _check_and_complete_milestone: milestone.sprints.count()
CountSprints(r) ==
    /\ req[r].pc = "count_sprints"
    /\ LET total_sprints == Cardinality(SprintsOf(SprintMilestone(req[r].sprint)))
       IN  Step(r, IF total_sprints = 0
                   THEN Finish(r, req[r])
                   ELSE [req[r] EXCEPT !.pc = "count_completed_sprints",
                                       !.total = total_sprints])
    /\ UNCHANGED <<accessVars, peopleVars, audit, recordVars, hierarchyVars, last>>

\* milestone.sprints.filter(status='Completed').count(), then the two tests
CountCompletedSprints(r) ==
    /\ req[r].pc = "count_completed_sprints"
    /\ LET completed_sprints ==
               Cardinality({x \in SprintsOf(SprintMilestone(req[r].sprint)) :
                                sprintStatus[x] = "Completed"})
       IN  Step(r, IF completed_sprints = req[r].total
                      /\ req[r].milestone_status # "Completed"
                   THEN [req[r] EXCEPT !.pc = "write_milestone"]
                   ELSE Finish(r, req[r]))
    /\ UNCHANGED <<accessVars, peopleVars, audit, recordVars, hierarchyVars, last>>

\* milestone.status = 'Completed'; milestone.save(update_fields=['status'])
WriteMilestone(r) ==
    /\ req[r].pc = "write_milestone"
    /\ LET m == SprintMilestone(req[r].sprint)
       IN  /\ milestoneStatus' = [milestoneStatus EXCEPT ![m] = "Completed"]
           /\ Step(r, [req[r] EXCEPT !.pc = "notify_milestone",
                                     !.milestone_status = "Completed",
                                     !.writes = Append(@, m)])
    /\ UNCHANGED <<accessVars, peopleVars, audit, recordVars, tasks, sprintStatus, projectStatus, last>>

\* _create_completion_notification(milestone, 'Milestone')
NotifyMilestone(r) ==
    /\ req[r].pc = "notify_milestone"
    /\ LET m == SprintMilestone(req[r].sprint)
       IN  Step(r, [req[r] EXCEPT
                !.pc = "count_milestones",
                !.created = @ (+) SetToBag({Notification(u, "Milestone", m) :
                                               u \in ProjectMemberUsers(MilestoneProject(m))})])
    /\ UNCHANGED <<accessVars, peopleVars, audit, recordVars, hierarchyVars, last>>

\* _check_and_complete_project: project.milestones.count()
CountMilestones(r) ==
    /\ req[r].pc = "count_milestones"
    /\ LET p == MilestoneProject(SprintMilestone(req[r].sprint))
           total_milestones == Cardinality(MilestonesOf(p))
       IN  Step(r, IF total_milestones = 0
                   THEN Finish(r, req[r])
                   ELSE [req[r] EXCEPT !.pc = "count_completed_milestones",
                                       !.total = total_milestones])
    /\ UNCHANGED <<accessVars, peopleVars, audit, recordVars, hierarchyVars, last>>

\* project.milestones.filter(status='Completed').count(), then the two tests
CountCompletedMilestones(r) ==
    /\ req[r].pc = "count_completed_milestones"
    /\ LET p == MilestoneProject(SprintMilestone(req[r].sprint))
           completed_milestones ==
               Cardinality({x \in MilestonesOf(p) : milestoneStatus[x] = "Completed"})
       IN  Step(r, IF completed_milestones = req[r].total
                      /\ req[r].project_status # "Completed"
                   THEN [req[r] EXCEPT !.pc = "write_project"]
                   ELSE Finish(r, req[r]))
    /\ UNCHANGED <<accessVars, peopleVars, audit, recordVars, hierarchyVars, last>>

\* project.status = 'Completed'; project.save(update_fields=['status'])
WriteProject(r) ==
    /\ req[r].pc = "write_project"
    /\ LET p == MilestoneProject(SprintMilestone(req[r].sprint))
       IN  /\ projectStatus' = [projectStatus EXCEPT ![p] = "Completed"]
           /\ Step(r, [req[r] EXCEPT !.pc = "notify_project",
                                     !.project_status = "Completed",
                                     !.writes = Append(@, p)])
    /\ UNCHANGED <<accessVars, peopleVars, audit, recordVars, tasks, sprintStatus, milestoneStatus, last>>

\* _create_completion_notification(project, 'Project')
NotifyProject(r) ==
    /\ req[r].pc = "notify_project"
    /\ LET p == MilestoneProject(SprintMilestone(req[r].sprint))
       IN  Step(r, [req[r] EXCEPT
                !.pc = "count_projects",
                !.created = @ (+) SetToBag({Notification(u, "Project", p) :
                                               u \in ProjectMemberUsers(p)})])
    /\ UNCHANGED <<accessVars, peopleVars, audit, recordVars, hierarchyVars, last>>

\* _check_and_complete_workspace: workspace.projects.count()
CountProjects(r) ==
    /\ req[r].pc = "count_projects"
    /\ LET w == ProjectWorkspace(MilestoneProject(SprintMilestone(req[r].sprint)))
           total_projects == Cardinality(ProjectsOf(w))
       IN  Step(r, IF total_projects = 0
                   THEN Finish(r, req[r])
                   ELSE [req[r] EXCEPT !.pc = "count_completed_projects",
                                       !.total = total_projects])
    /\ UNCHANGED <<accessVars, peopleVars, audit, recordVars, hierarchyVars, last>>

\* workspace.projects.filter(status='Completed').count(), then the test
CountCompletedProjects(r) ==
    /\ req[r].pc = "count_completed_projects"
    /\ LET w == ProjectWorkspace(MilestoneProject(SprintMilestone(req[r].sprint)))
           completed_projects ==
               Cardinality({x \in ProjectsOf(w) : projectStatus[x] = "Completed"})
       IN  Step(r, IF completed_projects = req[r].total
                   THEN [req[r] EXCEPT !.pc = "notify_workspace"]
                   ELSE Finish(r, req[r]))
    /\ UNCHANGED <<accessVars, peopleVars, audit, recordVars, hierarchyVars, last>>

\* _create_workspace_completion_notification
NotifyWorkspace(r) ==
    /\ req[r].pc = "notify_workspace"
    /\ LET w == ProjectWorkspace(MilestoneProject(SprintMilestone(req[r].sprint)))
       IN  Step(r, [Finish(r, req[r]) EXCEPT
                !.created = @ (+) SetToBag({Notification(u, "Workspace", w) :
                                               u \in WorkspaceMemberUsers(w)})])
    /\ UNCHANGED <<accessVars, peopleVars, audit, recordVars, hierarchyVars, last>>

\* both tasks exist in sprint s1 and are not Done; the statuses of the second
\* sprint, the second milestone and the second project are open
InitConcurrent ==
    /\ workspaceMembers =
         {[workspace |-> w, user |-> WorkspaceOwner(w), is_admin |-> TRUE] : w \in Workspaces}
    /\ projectMembers = {<<"u1", "p1">>, <<"u2", "p1">>, <<"u1", "p2">>}
    /\ accessGrants = {}
    /\ visibility = [p \in Projects |-> "private"]
    /\ userRole = [u \in Users |-> NoRole]
    /\ rolePermissions = {}
    /\ \E v \in {"To-do", "Done"} :
          tasks = [t \in Tasks |-> [sprint |-> "s1", status |-> IF t = 1 THEN "To-do" ELSE v]]
    /\ \E v \in EntityStatuses :
          sprintStatus = [s \in Sprints |-> IF s = "s1" THEN "Not Started" ELSE v]
    /\ \E v \in EntityStatuses :
          milestoneStatus = [m \in Milestones |-> IF m = "m1" THEN "Not Started" ELSE v]
    /\ \E v \in EntityStatuses :
          projectStatus = [p \in Projects |-> IF p = "p1" THEN "Not Started" ELSE v]
    /\ last = NoRequest
    /\ req = [r \in Requests |-> IdleRequest]
    /\ assignee = [t \in Tasks |-> NoUser]
    /\ reporter = [t \in Tasks |-> NoUser]
    /\ audit = NoAudit
    /\ InitRecords

NextConcurrent ==
    \/ \E r \in Requests, t \in Tasks, st \in RequestStatuses, preload \in BOOLEAN :
          BeginUpdate(r, t, st, preload)
    \/ \E r \in Requests : ReadOldStatus(r)
    \/ \E r \in Requests : SaveRow(r)
    \/ \E r \in Requests : LoadSprint(r)
    \/ \E r \in Requests : CountTasks(r)
    \/ \E r \in Requests : CountDoneTasks(r)
    \/ \E r \in Requests : WriteSprint(r)
    \/ \E r \in Requests : NotifySprint(r)
    \/ \E r \in Requests : CountSprints(r)
    \/ \E r \in Requests : CountCompletedSprints(r)
    \/ \E r \in Requests : WriteMilestone(r)
    \/ \E r \in Requests : NotifyMilestone(r)
    \/ \E r \in Requests : CountMilestones(r)
    \/ \E r \in Requests : CountCompletedMilestones(r)
    \/ \E r \in Requests : WriteProject(r)
    \/ \E r \in Requests : NotifyProject(r)
    \/ \E r \in Requests : CountProjects(r)
    \/ \E r \in Requests : CountCompletedProjects(r)
    \/ \E r \in Requests : NotifyWorkspace(r)

SpecConcurrent == InitConcurrent /\ [][NextConcurrent]_vars

\* SpecRace: every task of sprint s1 is open, everything beside the chain
\* of s1 is Completed, and every request moves a task to Done
InitRace ==
    /\ workspaceMembers =
         {[workspace |-> w, user |-> WorkspaceOwner(w), is_admin |-> TRUE] : w \in Workspaces}
    /\ projectMembers = {<<"u1", "p1">>, <<"u2", "p1">>, <<"u1", "p2">>}
    /\ accessGrants = {}
    /\ visibility = [p \in Projects |-> "private"]
    /\ userRole = [u \in Users |-> NoRole]
    /\ rolePermissions = {}
    /\ tasks = [t \in Tasks |-> [sprint |-> "s1", status |-> "To-do"]]
    /\ sprintStatus = [s \in Sprints |-> IF s = "s1" THEN "Not Started" ELSE "Completed"]
    /\ milestoneStatus = [m \in Milestones |-> IF m = "m1" THEN "Not Started" ELSE "Completed"]
    /\ projectStatus = [p \in Projects |-> IF p = "p1" THEN "Not Started" ELSE "Completed"]
    /\ last = NoRequest
    /\ req = [r \in Requests |-> IdleRequest]
    /\ assignee = [t \in Tasks |-> NoUser]
    /\ reporter = [t \in Tasks |-> NoUser]
    /\ audit = NoAudit
    /\ InitRecords

NextRace ==
    \/ \E r \in Requests, t \in Tasks, preload \in BOOLEAN :
          BeginUpdate(r, t, "Done", preload)
    \/ \E r \in Requests : ReadOldStatus(r)
    \/ \E r \in Requests : SaveRow(r)
    \/ \E r \in Requests : LoadSprint(r)
    \/ \E r \in Requests : CountTasks(r)
    \/ \E r \in Requests : CountDoneTasks(r)
    \/ \E r \in Requests : WriteSprint(r)
    \/ \E r \in Requests : NotifySprint(r)
    \/ \E r \in Requests : CountSprints(r)
    \/ \E r \in Requests : CountCompletedSprints(r)
    \/ \E r \in Requests : WriteMilestone(r)
    \/ \E r \in Requests : NotifyMilestone(r)
    \/ \E r \in Requests : CountMilestones(r)
    \/ \E r \in Requests : CountCompletedMilestones(r)
    \/ \E r \in Requests : WriteProject(r)
    \/ \E r \in Requests : NotifyProject(r)
    \/ \E r \in Requests : CountProjects(r)
    \/ \E r \in Requests : CountCompletedProjects(r)
    \/ \E r \in Requests : NotifyWorkspace(r)

SpecRace == InitRace /\ [][NextRace]_vars

\* how many rows about an object the requests have created for a user
RowsCreatedFor(u, obj_type, target) ==
    LET RECURSIVE Sum(_)
        Sum(n) == IF n = 0 THEN 0
                  ELSE CopiesIn(Notification(u, obj_type, target), req[n].created) + Sum(n - 1)
    IN  Sum(NumRequests)

\* C6: of the requests that move the tasks of a sprint to Done side by side,
\* at most one writes Completed to the sprint, and no project member gets
\* more than one notification about that completion.
SprintCompletedAtMostOnce ==
    \A s \in Sprints :
        /\ Cardinality({r \in Requests : s \in Written(req[r])}) <= 1
        /\ \A u \in ProjectMemberUsers(MilestoneProject(SprintMilestone(s))) :
              RowsCreatedFor(u, "Sprint", s) <= 1

(***************************************************************************)
(* The access resolver's rules, stated on the rows                         *)
(***************************************************************************)
IsProjectMemberRow(u, p) == <<u, p>> \in projectMembers

IsOwnerOfWorkspaceOf(u, p) == WorkspaceOwner(ProjectWorkspace(p)) = u

HasMemberRow(u, p) ==
    \E m \in workspaceMembers : m.workspace = ProjectWorkspace(p) /\ m.user = u

HasAdminRow(u, p) ==
    \E m \in workspaceMembers :
        m.workspace = ProjectWorkspace(p) /\ m.user = u /\ m.is_admin = TRUE

HasViewGrant(u, p) ==
    \E g \in accessGrants : g.user = u /\ g.project = p /\ g.can_view = TRUE

HasEditGrant(u, p) ==
    \E g \in accessGrants : g.user = u /\ g.project = p /\ g.can_edit = TRUE

RoleGrants(u, perm) ==
    userRole[u] \in Roles /\ <<userRole[u], perm>> \in rolePermissions

\* C1: whoever can edit a project can view it.
EditImpliesView ==
    \A u \in Users, p \in Projects :
        can_user_edit_project(u, p) => can_user_view_project(u, p)

\* C2: can_user_view_project is exactly the disjunction of the five rules
\* (project member, workspace owner, admin member, view grant, member of the
\* workspace of a public project), whatever the order of evaluation.
ViewIsDisjunctionOfRules ==
    \A u \in Users, p \in Projects :
        can_user_view_project(u, p) <=>
            \/ IsProjectMemberRow(u, p)
            \/ IsOwnerOfWorkspaceOf(u, p)
            \/ HasAdminRow(u, p)
            \/ HasViewGrant(u, p)
            \/ (visibility[p] = "public" /\ HasMemberRow(u, p))

\* a user who sees a project by rule 5 alone, and one whom the public flag
\* does not help because the membership is missing
ViewByPublicMembershipOnly ==
    \E u \in Users, v \in Users, p \in Projects :
        /\ visibility[p] = "public"
        /\ HasMemberRow(u, p) /\ ~HasAdminRow(u, p) /\ ~IsOwnerOfWorkspaceOf(u, p)
        /\ ~IsProjectMemberRow(u, p) /\ ~HasViewGrant(u, p)
        /\ can_user_view_project(u, p)
        /\ u # v
        /\ IsOwnerOfWorkspaceOf(v, p)

\* C3: can_user_edit_project is exactly: project member, workspace owner,
\* admin member, edit grant, or the role permission project.edit together
\* with a membership of the workspace.
EditIsDisjunctionOfRules ==
    \A u \in Users, p \in Projects :
        can_user_edit_project(u, p) <=>
            \/ IsProjectMemberRow(u, p)
            \/ IsOwnerOfWorkspaceOf(u, p)
            \/ HasAdminRow(u, p)
            \/ HasEditGrant(u, p)
            \/ (RoleGrants(u, "project.edit") /\ HasMemberRow(u, p))

\* the role permission without the membership does not let the user edit
RolePermissionWithoutMembership ==
    \E u \in Users, p \in Projects :
        /\ RoleGrants(u, "project.edit")
        /\ ~HasMemberRow(u, p)
        /\ ~can_user_edit_project(u, p)

\* C10's case: private project, plain member of its workspace
PlainMemberOfPrivate(u, p) ==
    /\ visibility[p] = "private"
    /\ HasMemberRow(u, p)
    /\ ~HasAdminRow(u, p)
    /\ ~IsOwnerOfWorkspaceOf(u, p)
    /\ ~IsProjectMemberRow(u, p)

\* C10: for a plain member of the workspace of a private project the view
\* check is false while no view grant exists and true in the state right
\* after the grant is created.
GrantOverride ==
    [][\A u \in Users, p \in Projects :
          /\ (PlainMemberOfPrivate(u, p) /\ ~HasViewGrant(u, p))
                => ~can_user_view_project(u, p)
          /\ (PlainMemberOfPrivate(u, p) /\ ~HasViewGrant(u, p)
                /\ PlainMemberOfPrivate(u, p)' /\ HasViewGrant(u, p)')
                => can_user_view_project(u, p)'
          /\ (PlainMemberOfPrivate(u, p)' /\ ~HasViewGrant(u, p)')
                => ~can_user_view_project(u, p)']_vars

\* the state right after the grant
ViewGrantedToPlainMember ==
    \E u \in Users, p \in Projects :
        PlainMemberOfPrivate(u, p) /\ HasViewGrant(u, p) /\ can_user_view_project(u, p)

\* C11: the listing and the object check agree: a project is in
\* get_accessible_projects(U) exactly when can_user_view_project(U, P) holds.
ListingAgreesWithObjectCheck ==
    \A u \in Users, p \in Projects :
        p \in get_accessible_projects(u) <=> can_user_view_project(u, p)

\* a private project is listed for a plain member only through a view grant
ListedThroughGrantOnly ==
    \E u \in Users, p \in Projects :
        /\ PlainMemberOfPrivate(u, p)
        /\ HasViewGrant(u, p)
        /\ p \in get_accessible_projects(u)

HasNoRowOn(u, p) ==
    /\ ~HasMemberRow(u, p)
    /\ ~\E g \in accessGrants : g.user = u /\ g.project = p
    /\ ~IsProjectMemberRow(u, p)

\* C16 as claimed: a public project is neither viewable by nor listed for a
\* user without a WorkspaceMember row in its workspace, without a grant on it
\* and without a ProjectMember row on it.
PublicScopedToRowsAsClaimed ==
    \A u \in Users, p \in Projects :
        (visibility[p] = "public" /\ HasNoRowOn(u, p))
        => (~can_user_view_project(u, p) /\ p \notin get_accessible_projects(u))

\* C16 amended: the same for every user who is not the owner of the
\* project's workspace.
PublicScopedToRows ==
    \A u \in Users, p \in Projects :
        (visibility[p] = "public" /\ HasNoRowOn(u, p) /\ ~IsOwnerOfWorkspaceOf(u, p))
        => (~can_user_view_project(u, p) /\ p \notin get_accessible_projects(u))

\* a project has been made public while a user who is not the owner holds no
\* row on it
PublicWithOutsider ==
    \E u \in Users, p \in Projects :
        /\ visibility[p] = "public"
        /\ HasNoRowOn(u, p)
        /\ ~IsOwnerOfWorkspaceOf(u, p)

Next ==
    \/ \E actor \in Users, w \in Workspaces, u \in Users, a \in BOOLEAN :
          AddWorkspaceMember(actor, w, u, a)
    \/ \E actor \in Users, w \in Workspaces, u \in Users, as_text \in BOOLEAN :
          RemoveWorkspaceMember(actor, w, u, as_text)
    \/ \E actor \in Users, w \in Workspaces, u \in Users, p \in ManagedProjects,
          cv \in BOOLEAN, ce \in BOOLEAN :
          GrantProjectAccess(actor, w, u, p, cv, ce)
    \/ \E actor \in Users, w \in Workspaces, u \in Users, p \in ManagedProjects :
          RevokeProjectAccess(actor, w, u, p)
    \/ \E actor \in Users, p \in ManagedProjects, u \in Users : AddProjectMember(actor, p, u)
    \/ \E actor \in Users, p \in ManagedProjects, u \in Users : RemoveProjectMember(actor, p, u)
    \/ \E actor \in Users, p \in ManagedProjects, v \in Visibilities :
          SetProjectVisibility(actor, p, v)
    \/ \E r \in Roles, perm \in Permissions : AssignPermission(r, perm)
    \/ \E r \in Roles, perm \in Permissions : RevokePermission(r, perm)
    \/ \E u \in Users, r \in Roles : SetUserRole(u, r)

Spec == Init /\ [][Next]_vars

(***************************************************************************)
(* SpecTasks: one task of sprint s1 with its assignee and reporter, under  *)
(* the access operations of Spec.  can_user_view_task, can_user_edit_task  *)
(* (permission_helpers.py) and TaskViewSet.get_queryset (task_views.py).   *)
(***************************************************************************)
ManagedTasks == {t \in Tasks : t = 1}

\* whom the requests explored name as assignee or reporter: nobody, or a user
\* who does not own the workspace (the owner passes every check by rule 2
\* whether assigned or not)
TaskPeople == {NoUser} \cup {u \in Users : \A w \in Workspaces : WorkspaceOwner(w) # u}

\* task.sprint.milestone.project
TaskProject(t) == MilestoneProject(SprintMilestone(tasks[t].sprint))

\* the answer 'all' of can_user_edit_task, written as a one-element sequence
\* so that it compares with the field lists
AllFields == <<"all">>

\* the limited field list of an assignee
AssigneeFields == <<"status", "description", "start_date", "due_date">>

\* variant: only the assignee passes, not the reporter
can_user_view_task_assignee_only(user, t) ==
    IF assignee[t] = user
    THEN TRUE
    ELSE can_user_view_project(user, TaskProject(t))

can_user_view_task(user, t) ==
    IF assignee[t] = user \/ reporter[t] = user
    THEN TRUE
    ELSE can_user_view_project(user, TaskProject(t))

\* variant: the role permission task.edit is enough without project view
can_user_edit_task_role_alone(user, t) ==
    IF can_user_edit_project(user, TaskProject(t))
    THEN [can_edit |-> TRUE, fields |-> AllFields]
    ELSE IF assignee[t] = user
    THEN [can_edit |-> TRUE, fields |-> AssigneeFields]
    ELSE IF has_role_permission(user, "task.edit")
    THEN [can_edit |-> TRUE, fields |-> AllFields]
    ELSE [can_edit |-> FALSE, fields |-> <<>>]

can_user_edit_task(user, t) ==
    IF can_user_edit_project(user, TaskProject(t))
    THEN [can_edit |-> TRUE, fields |-> AllFields]
    ELSE IF assignee[t] = user
    THEN [can_edit |-> TRUE, fields |-> AssigneeFields]
    ELSE IF has_role_permission(user, "task.edit")
            /\ can_user_view_project(user, TaskProject(t))
    THEN [can_edit |-> TRUE, fields |-> AllFields]
    ELSE [can_edit |-> FALSE, fields |-> <<>>]

\* TaskViewSet.get_queryset: the tasks of the listing
TaskListing(user) ==
    LET user_workspace_ids ==
            {m.workspace : m \in {x \in workspaceMembers : x.user = user}}
        visible_projects ==
            {p \in Projects :
                \/ <<user, p>> \in projectMembers
                \/ (ProjectWorkspace(p) \in user_workspace_ids /\ visibility[p] = "public")}
    IN  {t \in Tasks :
            /\ tasks[t] # NoTask
            /\ \/ assignee[t] = user
               \/ reporter[t] = user
               \/ TaskProject(t) \in visible_projects}

\* permissions.py: IsTaskAssignee
IsTaskAssignee(user, t) == assignee[t] = user \/ reporter[t] = user

\* get_object under TaskViewSet: the queryset, then IsTaskAssignee | CanViewProject
TaskReachableBy(user, t) ==
    /\ t \in TaskListing(user)
    /\ (IsTaskAssignee(user, t) \/ can_user_view_project(user, TaskProject(t)))

\* TaskViewSet.perform_update with assignee and reporter in the body
UpdateTaskPeople(actor, t, a, r) ==
    /\ TaskReachableBy(actor, t)
    /\ assignee' = [assignee EXCEPT ![t] = a]
    /\ reporter' = [reporter EXCEPT ![t] = r]
    /\ UNCHANGED <<accessVars, hierarchyVars, last, req, audit, recordVars>>

\* TaskViewSet.assign_to_me
AssignToMe(actor, t) ==
    /\ TaskReachableBy(actor, t)
    /\ assignee' = [assignee EXCEPT ![t] = actor]
    /\ UNCHANGED <<accessVars, hierarchyVars, last, req, reporter, audit, recordVars>>

\* the task as TaskViewSet.perform_create stored it: any assignee and
\* reporter the body named
InitTasks ==
    /\ InitAccess
    /\ tasks = [t \in Tasks |-> IF t \in ManagedTasks
                                 THEN [sprint |-> "s1", status |-> "To-do"]
                                 ELSE NoTask]
    /\ sprintStatus = [s \in Sprints |-> "Not Started"]
    /\ milestoneStatus = [m \in Milestones |-> "Not Started"]
    /\ projectStatus = [p \in Projects |-> "Not Started"]
    /\ last = NoRequest
    /\ req = [r \in Requests |-> IdleRequest]
    /\ \E a \in TaskPeople, r \in TaskPeople :
          /\ assignee = [t \in Tasks |-> IF t \in ManagedTasks THEN a ELSE NoUser]
          /\ reporter = [t \in Tasks |-> IF t \in ManagedTasks THEN r ELSE NoUser]
    /\ audit = NoAudit
    /\ InitRecords

NextTasks ==
    \/ Next
    \/ \E actor \in Users, t \in ManagedTasks,
          a \in TaskPeople, r \in TaskPeople :
          UpdateTaskPeople(actor, t, a, r)
    \/ \E actor \in Users, t \in ManagedTasks : AssignToMe(actor, t)

SpecTasks == InitTasks /\ [][NextTasks]_vars

\* C12: the task listing of a user holds exactly the tasks the user may view:
\* those the user is assignee or reporter of and those whose project is in
\* get_accessible_projects.
TaskListingIsViewableTasks ==
    \A u \in Users, t \in Tasks :
        tasks[t] # NoTask
        => /\ t \in TaskListing(u)
                 <=> (assignee[t] = u \/ reporter[t] = u
                        \/ TaskProject(t) \in get_accessible_projects(u))
           /\ t \in TaskListing(u) <=> can_user_view_task(u, t)

\* C13: can_user_edit_task answers by the first matching step: project edit
\* gives all fields; else the assignee gets the four self-service fields;
\* else the role permission task.edit together with project view gives all
\* fields; else nothing.  can_edit is false exactly when the list is empty.
EditTaskLadder ==
    \A u \in Users, t \in Tasks :
        tasks[t] # NoTask
        => LET p == TaskProject(t)
               answer == can_user_edit_task(u, t)
               byProject == can_user_edit_project(u, p)
               byAssignment == ~byProject /\ assignee[t] = u
               byRole == /\ ~byProject /\ assignee[t] # u
                         /\ RoleGrants(u, "task.edit") /\ can_user_view_project(u, p)
           IN  /\ byProject => answer = [can_edit |-> TRUE, fields |-> AllFields]
               /\ byAssignment
                     => answer = [can_edit |-> TRUE,
                                  fields |-> <<"status", "description",
                                               "start_date", "due_date">>]
               /\ byRole => answer = [can_edit |-> TRUE, fields |-> AllFields]
               /\ ~(byProject \/ byAssignment \/ byRole)
                     => answer = [can_edit |-> FALSE, fields |-> <<>>]
               /\ answer.can_edit = FALSE <=> answer.fields = <<>>

\* the role step decides for one user: task.edit, project view but no
\* project edit, not the assignee
EditTaskByRoleStep ==
    \E u \in Users, t \in ManagedTasks :
        /\ ~can_user_edit_project(u, TaskProject(t))
        /\ assignee[t] # u
        /\ RoleGrants(u, "task.edit")
        /\ can_user_view_project(u, TaskProject(t))
        /\ can_user_edit_task(u, t).fields = AllFields

\* C14: a user may view a task exactly as its assignee, as its reporter, or
\* by viewing the project reached through the task's sprint and milestone.
ViewTaskRule ==
    \A u \in Users, t \in Tasks :
        tasks[t] # NoTask
        => (can_user_view_task(u, t)
              <=> \/ assignee[t] = u
                  \/ reporter[t] = u
                  \/ can_user_view_project(u, TaskProject(t)))

\* the reporter of a task of a private project views it without a row there
ReporterWithoutAccessViews ==
    \E u \in Users, t \in ManagedTasks :
        /\ reporter[t] = u /\ assignee[t] # u
        /\ visibility[TaskProject(t)] = "private"
        /\ HasNoRowOn(u, TaskProject(t))
        /\ ~can_user_view_project(u, TaskProject(t))
        /\ can_user_view_task(u, t)

(***************************************************************************)
(* SpecRoles: roles and their permissions alone, with a second role, under *)
(* RoleViewSet.assign_permission / revoke_permission and the user update.  *)
(***************************************************************************)
AllRoles == Roles \cup {"User"}

NextRoles ==
    \/ \E r \in AllRoles, perm \in Permissions : AssignPermission(r, perm)
    \/ \E r \in AllRoles, perm \in Permissions : RevokePermission(r, perm)
    \/ \E u \in Users, r \in AllRoles : SetUserRole(u, r)

SpecRoles == Init /\ [][NextRoles]_vars

\* C15: has_role_permission holds exactly when the user has a role and a
\* RolePermission row of that role and permission exists; without a role it
\* fails for every permission.
RoleDefaultDeny ==
    \A u \in Users, perm \in Permissions :
        /\ has_role_permission(u, perm)
              <=> (userRole[u] # NoRole /\ <<userRole[u], perm>> \in rolePermissions)
        /\ userRole[u] = NoRole => ~has_role_permission(u, perm)

\* every role holds a permission that a user without a role is denied, and
\* a user with a role is denied a permission that only the other role holds
DeniedDespiteOtherRoles ==
    \E u \in Users, v \in Users, perm \in Permissions, other \in Permissions :
        /\ userRole[u] = NoRole
        /\ \A r \in AllRoles : <<r, perm>> \in rolePermissions
        /\ ~has_role_permission(u, perm)
        /\ userRole[v] # NoRole
        /\ <<userRole[v], other>> \notin rolePermissions
        /\ \E r \in AllRoles : <<r, other>> \in rolePermissions
        /\ ~has_role_permission(v, other)

\* C20: when two requests update the same task concurrently, the old_value
\* of each UPDATED entry is the task's persisted state immediately before
\* that request's own save.
OldValueIsStateBeforeSave ==
    \A r \in Requests :
        req[r].pc = "done" => req[r].old_value = req[r].prior

\* C23: the cascade never reopens: a task operation leaves every status of
\* a sprint, milestone or project as it was or sets it to Completed, and a
\* save that does not run the cascade on a Done task changes none of them.
NoAutoReopen ==
    [][last'.op \in {"create", "update", "delete", "trigger"}
       => /\ \A s \in Sprints : sprintStatus'[s] \in {sprintStatus[s], "Completed"}
          /\ \A m \in Milestones : milestoneStatus'[m] \in {milestoneStatus[m], "Completed"}
          /\ \A p \in Projects : projectStatus'[p] \in {projectStatus[p], "Completed"}
          /\ last'.sprint = "null"
               => UNCHANGED <<sprintStatus, milestoneStatus, projectStatus>>]_vars

\* a save left a task that is not Done in a sprint that stays Completed
OpenTaskInCompletedSprint ==
    /\ IsSave(last)
    /\ ~last.ran
    /\ \E t \in Tasks :
          /\ tasks[t] # NoTask
          /\ tasks[t].status # "Done"
          /\ sprintStatus[tasks[t].sprint] = "Completed"
          /\ milestoneStatus[SprintMilestone(tasks[t].sprint)] = "Completed"

\* C25: containment is immutable: a task that exists before and after a
\* step is in the same sprint.
ContainmentImmutable ==
    [][\A t \in Tasks :
          (tasks[t] # NoTask /\ tasks'[t] # NoTask)
             => tasks'[t].sprint = tasks[t].sprint]_vars

\* C28: whenever a step sets a sprint (milestone, project) to Completed,
\* every task of the sprint (sprint of the milestone, milestone of the
\* project) is in its terminal state in the persisted data at that moment.
CompletedOnlyWhenAllChildrenTerminal ==
    [][/\ \A s \in Sprints :
             (sprintStatus[s] # "Completed" /\ sprintStatus'[s] = "Completed")
                => AllTasksDone(tasks', s)
       /\ \A m \in Milestones :
             (milestoneStatus[m] # "Completed" /\ milestoneStatus'[m] = "Completed")
                => \A s \in SprintsOf(m) : sprintStatus'[s] = "Completed"
       /\ \A p \in Projects :
             (projectStatus[p] # "Completed" /\ projectStatus'[p] = "Completed")
                => \A m \in MilestonesOf(p) : milestoneStatus'[m] = "Completed"]_vars

\* C29: no lost completion: when two requests have moved two different tasks
\* of a sprint from a status other than Done to Done, every request has
\* finished and every task of the sprint is Done, the sprint is Completed.
NoLostCompletion ==
    \A r1 \in Requests, r2 \in Requests :
        (/\ r1 # r2
         /\ \A r \in Requests : req[r].pc \in {"idle", "done"}
         /\ \A r \in {r1, r2} :
               /\ req[r].pc = "done"
               /\ req[r].status = "Done"
               /\ req[r].old_status # "Done"
         /\ req[r1].task # req[r2].task
         /\ req[r1].sprint = req[r2].sprint
         /\ AllTasksDone(tasks, req[r1].sprint))
        => sprintStatus[req[r1].sprint] = "Completed"

\* two requests on different tasks overlapped so far that each saw all tasks
\* Done: both wrote the sprint, and both have finished
BothRequestsSawAllDone ==
    \E r1 \in Requests, r2 \in Requests :
        /\ req[r1].task # req[r2].task
        /\ \A r \in {r1, r2} :
              /\ req[r].pc = "done"
              /\ req[r].status = "Done"
              /\ req[r].old_status # "Done"
              /\ req[r].sprint \in Written(req[r])
        /\ AllTasksDone(tasks, req[r1].sprint)
        /\ sprintStatus[req[r1].sprint] = "Completed"

\* C30: the cascade climbs only through levels it flips itself: a run on a
\* sprint that is already Completed writes no status and creates no
\* notification; a milestone is written only in a run that flipped one of
\* its sprints, a project only in a run that wrote one of its milestones.
ClimbsOnlyThroughFlips ==
    [][last'.op \in {"create", "update", "trigger"}
       => /\ (last'.sprint # "null" /\ sprintStatus[last'.sprint] = "Completed")
               => /\ last'.writes = <<>>
                  /\ last'.created = EmptyBag
                  /\ UNCHANGED <<sprintStatus, milestoneStatus, projectStatus>>
          /\ \A m \in Milestones :
                m \in Written(last')
                   => \E s \in SprintsOf(m) :
                         s \in Written(last') /\ sprintStatus[s] # "Completed"
          /\ \A p \in Projects :
                p \in Written(last')
                   => \E m \in MilestonesOf(p) : m \in Written(last')]_vars

\* the last task of an already Completed sprint became Done, all sprints of
\* the milestone are Completed, and the milestone was left as it was
MilestoneLeftBehindCompletedSprint ==
    /\ IsSave(last)
    /\ last.ran
    /\ last.sprint # "null"
    /\ last.writes = <<>>
    /\ last.created = EmptyBag
    /\ AllTasksDone(tasks, last.sprint)
    /\ \A s \in SprintsOf(SprintMilestone(last.sprint)) : sprintStatus[s] = "Completed"
    /\ milestoneStatus[SprintMilestone(last.sprint)] # "Completed"

\* C19: every create, update and delete of an entity a request persists,
\* the status writes of the completion cascade included, appends an
\* ActivityLog entry for that entity: a step that changes a row of some
\* content type writes an entry of that content type.
EveryMutationLogged ==
    [][LET mutated ==
             (IF tasks' # tasks THEN {"Task"} ELSE {})
               \cup (IF sprintStatus' # sprintStatus THEN {"Sprint"} ELSE {})
               \cup (IF milestoneStatus' # milestoneStatus THEN {"Milestone"} ELSE {})
               \cup (IF projectStatus' # projectStatus THEN {"Project"} ELSE {})
       IN  mutated \subseteq last'.logged]_vars

(***************************************************************************)
(* SpecAudit: services/audit_service.py on one audited task.  A serialized *)
(* state maps field names to values; a value is a plain value or a foreign *)
(* key with id and display string (serialize_model_state).                 *)
(***************************************************************************)
\* three of the fields get_default_fields_for_model lists for Task
AuditFields == {"status", "sprint", "assignee"}

Plain(v) == [fk |-> FALSE, id |-> v, display |-> v]

ForeignKey(id, display) == [fk |-> TRUE, id |-> id, display |-> display]

None == Plain("None")

\* str(sprint): the sprint's name, which a sprint update can change
SprintNames == {"Sprint 1", "Sprint one"}

\* the states of the audited task
EntityStates ==
    {[f \in AuditFields |->
         CASE f = "status" -> Plain(st)
           [] f = "sprint" -> ForeignKey(sp, n)
           [] OTHER -> a] :
       st \in {"To-do", "Done"}, sp \in Sprints, n \in SprintNames,
       a \in {None, ForeignKey("u2", "u2")}}

\* None and the empty dict, both falsy in log_update
NoState == [f \in {} |-> None]

Restrict(state, keys) == [f \in keys |-> state[f]]

\* fields = {} stands for the default None: the model's default field list
serialize_model_state(instance, fields) ==
    LET field_list == IF fields # {} THEN fields ELSE AuditFields
    IN  [f \in field_list |-> instance[f]]

capture_state(instance, fields) == serialize_model_state(instance, fields)

\* dict.get: None for a missing key
Get(state, key) == IF key \in DOMAIN state THEN state[key] ELSE None

\* the keys of the dictionary compute_changes returns
compute_changes(old_state, new_state) ==
    LET all_keys == DOMAIN old_state \cup DOMAIN new_state
    IN  {key \in all_keys :
            LET old_val == Get(old_state, key)
                new_val == Get(new_state, key)
            IN  IF old_val.fk /\ new_val.fk
                THEN old_val.id # new_val.id
                ELSE old_val # new_val}

NoEntry ==
    [action |-> "none", old_value |-> NoState, new_value |-> NoState,
     changed_fields |-> {}, instance |-> NoState]

\* the ActivityLog row log_update creates; instance is the entity as it was
\* when the row was written
log_update(instance, old_state, fields) ==
    LET new_state == serialize_model_state(instance, fields)
        changes == IF DOMAIN old_state # {}
                   THEN compute_changes(old_state, new_state)
                   ELSE {}
    IN  [action |-> "updated", old_value |-> old_state, new_value |-> new_state,
         changed_fields |-> changes, instance |-> instance]

\* the key sets of the old_state a caller supplies
SuppliedKeys == {{}, {"status"}, AuditFields}

\* which step of writing the entry fails: none, the context enrichment
\* (a parent missing in the chain) or the creation of the row
AuditFailures == {"none", "context", "persist"}

\* AuditService.log_update called with a supplied old_state
LogUpdate(old_state, fields) ==
    /\ audit' = [audit EXCEPT !.entry = log_update(audit.entity, old_state, fields),
                              !.outcome = "ok", !.failure = "none"]
    /\ UNCHANGED <<accessVars, hierarchyVars, last, req, peopleVars, recordVars>>

\* perform_update: capture_state, serializer.save(), log_update.
\* get_entity_context catches the AttributeError of a missing parent and the
\* row is written without that context; nothing catches an exception of
\* ActivityLog.objects.create, which leaves the handler after the save.
PerformUpdate(new_entity, failure) ==
    /\ new_entity # audit.entity
    /\ LET old_state == capture_state(audit.entity, {})
       IN  audit' =
             IF failure = "persist"
             THEN [audit EXCEPT !.entity = new_entity, !.outcome = "error",
                                !.failure = failure]
             ELSE [entity |-> new_entity,
                   entry |-> log_update(new_entity, old_state, {}),
                   outcome |-> "ok", failure |-> failure]
    /\ UNCHANGED <<accessVars, hierarchyVars, last, req, peopleVars, recordVars>>

InitAudit ==
    /\ InitAccess
    /\ tasks = [t \in Tasks |-> NoTask]
    /\ sprintStatus = [s \in Sprints |-> "Not Started"]
    /\ milestoneStatus = [m \in Milestones |-> "Not Started"]
    /\ projectStatus = [p \in Projects |-> "Not Started"]
    /\ last = NoRequest
    /\ req = [r \in Requests |-> IdleRequest]
    /\ assignee = [t \in Tasks |-> NoUser]
    /\ reporter = [t \in Tasks |-> NoUser]
    /\ InitRecords
    /\ \E e \in EntityStates :
          audit = [entity |-> e, entry |-> NoEntry, outcome |-> "none", failure |-> "none"]

NextAudit ==
    \/ \E e \in EntityStates, keys \in SuppliedKeys, fields \in {{}, {"status"}} :
          LogUpdate(Restrict(e, keys), fields)
    \/ \E e \in EntityStates, failure \in AuditFailures : PerformUpdate(e, failure)

SpecAudit == InitAudit /\ [][NextAudit]_vars

\* the fields of old_state whose value is not the entity's (foreign keys by id)
DiffersFromEntity(old_state, instance) ==
    {f \in DOMAIN old_state :
        IF old_state[f].fk /\ instance[f].fk
        THEN old_state[f].id # instance[f].id
        ELSE old_state[f] # instance[f]}

\* C17: the changed_fields of an UPDATED entry are exactly the fields whose
\* value differs between the supplied old_state and the entity at log time;
\* old_state {status: To-do} on a task that is now Done gives [status].
ChangedFieldsAreTheDifferences ==
    audit.entry.action = "updated"
    => /\ audit.entry.changed_fields
             = DiffersFromEntity(audit.entry.old_value, audit.entry.instance)
       /\ (/\ audit.entry.old_value = [f \in {"status"} |-> Plain("To-do")]
           /\ audit.entry.instance["status"] = Plain("Done"))
             => audit.entry.changed_fields = {"status"}

\* C18: a request whose audit step failed still ends successfully.
AuditFailureSuppressed ==
    audit.failure # "none" => audit.outcome = "ok"

(***************************************************************************)
(* SpecLog: the ActivityLog table under the four AuditService methods and  *)
(* the deletion of a user.  ActivityLog.user is a foreign key with         *)
(* on_delete = SET_NULL.                                                   *)
(***************************************************************************)
MaxLog == 3

ContentTypes == {"Task", "Sprint"}

EventTypes == {"TASK_STATUS_CHANGED", "SPRINT_STATUS_CHANGED"}

\* the row each method hands to ActivityLog.objects.create
log_create(user, content_type) ==
    [user |-> user, action |-> "CREATED", content_type |-> content_type]

log_update_entry(user, content_type) ==
    [user |-> user, action |-> "UPDATED", content_type |-> content_type]

log_delete(user, content_type) ==
    [user |-> user, action |-> "DELETED", content_type |-> content_type]

log_event(user, content_type, action) ==
    [user |-> user, action |-> action, content_type |-> content_type]

\* ActivityLog.objects.create
ActivityLogCreate(entry) ==
    /\ Len(log) < MaxLog
    /\ log' = Append(log, entry)
    /\ UNCHANGED <<accessVars, hierarchyVars, last, req, peopleVars, audit, userRows,
                   dependencies, scope>>

CallLogCreate(user, content_type) ==
    /\ user \in userRows
    /\ ActivityLogCreate(log_create(user, content_type))

CallLogUpdate(user, content_type) ==
    /\ user \in userRows
    /\ ActivityLogCreate(log_update_entry(user, content_type))

\* perform_destroy: log_delete, then instance.delete(); no entry refers to
\* the deleted row by a foreign key (content_type and object_id are plain)
CallLogDelete(user, content_type) ==
    /\ user \in userRows
    /\ ActivityLogCreate(log_delete(user, content_type))

CallLogEvent(user, content_type, action) ==
    /\ user \in userRows
    /\ ActivityLogCreate(log_event(user, content_type, action))

\* UserViewSet (a ModelViewSet, IsAuthenticated): DELETE /users/{id}/.  The
\* collector nulls the user column of every entry of the deleted user.
DestroyUser(actor, u) ==
    /\ actor \in userRows
    /\ u \in userRows
    /\ userRows' = userRows \ {u}
    /\ log' = [i \in DOMAIN log |->
                 IF log[i].user = u THEN [log[i] EXCEPT !.user = NoUser] ELSE log[i]]
    /\ UNCHANGED <<accessVars, hierarchyVars, last, req, peopleVars, audit, dependencies,
                   scope>>

InitLog ==
    /\ InitAccess
    /\ InitHierarchy

NextLog ==
    \/ \E u \in Users, ct \in ContentTypes : CallLogCreate(u, ct)
    \/ \E u \in Users, ct \in ContentTypes : CallLogUpdate(u, ct)
    \/ \E u \in Users, ct \in ContentTypes : CallLogDelete(u, ct)
    \/ \E u \in Users, ct \in ContentTypes, a \in EventTypes : CallLogEvent(u, ct, a)
    \/ \E actor \in Users, u \in Users : DestroyUser(actor, u)

SpecLog == InitLog /\ [][NextLog]_vars

\* C21: the audit log is append-only: a step adds at most one entry at the
\* end and leaves every existing entry as it was.
AppendOnly ==
    [][/\ Len(log') \in {Len(log), Len(log) + 1}
       /\ \A i \in DOMAIN log : log'[i] = log[i]]_vars

(***************************************************************************)
(* SpecNotify: task saves during which the creation of Notification rows   *)
(* fails for some recipients                                               *)
(***************************************************************************)
\* Task.save as in TaskSave, the run starting with the failing recipients
TaskSaveUnderFailure(op, t, sprint, status, failing) ==
    LET old_status == IF tasks[t] = NoTask THEN "None" ELSE tasks[t].status
        saved == [tasks EXCEPT ![t] = [sprint |-> sprint, status |-> status]]
        edge == old_status # "Done" /\ status = "Done"
        start == [StartRun EXCEPT !.failing = failing]
        run == IF edge
               THEN trigger_auto_completion(start, saved,
                                            [sprint |-> sprint, status |-> status])
               ELSE start
    IN  /\ tasks' = saved
        /\ Commit(run, op, edge, [sprint |-> sprint, status |-> status])
        /\ UNCHANGED <<accessVars, peopleVars, audit, recordVars, req>>

CreateTaskUnderFailure(t, sprint, status, failing) ==
    /\ tasks[t] = NoTask
    /\ TaskSaveUnderFailure("create", t, sprint, status, failing)

UpdateTaskUnderFailure(t, sprint, status, failing) ==
    /\ tasks[t] # NoTask
    /\ TaskSaveUnderFailure("update", t, sprint, status, failing)

NextNotify ==
    \/ \E t \in Tasks, s \in Sprints, st \in RequestStatuses, failing \in SUBSET Users :
          CreateTaskUnderFailure(t, s, st, failing)
    \/ \E t \in Tasks, s \in Sprints, st \in RequestStatuses, failing \in SUBSET Users :
          UpdateTaskUnderFailure(t, s, st, failing)

SpecNotify == InitCascade /\ [][NextNotify]_vars

\* C22: a failing notification does not abort the cascade: the save ends
\* successfully, the statuses and the status writes are those of the run in
\* which no creation fails, and no notification is created that this run
\* would not create (nothing is retried).
NotificationFailureContained ==
    [][last'.op \in {"create", "update"}
       => LET ref == IF last'.sprint # "null"
                     THEN _check_and_complete_sprint(StartRun, tasks', last'.sprint)
                     ELSE StartRun
          IN  /\ last'.ok
              /\ sprintStatus' = ref.sprintStatus
              /\ milestoneStatus' = ref.milestoneStatus
              /\ projectStatus' = ref.projectStatus
              /\ last'.writes = ref.writes
              /\ last'.created \sqsubseteq ref.created]_vars

\* the notification of the sprint failed and the run went on to complete the
\* milestone
CascadePassedFailedNotification ==
    /\ "Sprint" \in last.caught
    /\ last.ok
    /\ Len(last.writes) >= 2
    /\ sprintStatus[last.sprint] = "Completed"
    /\ milestoneStatus[SprintMilestone(last.sprint)] = "Completed"

(***************************************************************************)
(* SpecDeps: TaskDependencyViewSet, a ModelViewSet over all TaskDependency *)
(* rows with TaskDependencyCreateUpdateSerializer.  A field the request    *)
(* does not supply is Absent in the validated data.                        *)
(***************************************************************************)
DependencyTypes == {"Blocked By", "Blocks", "Related To"}

Absent == 0

AbsentType == "absent"

\* validate: data.get('task') == data.get('depends_on') raises; two missing
\* keys are both None and compare equal
validate(data) == data.task # data.depends_on

\* unique_together (task, depends_on), checked against the other rows
UniqueTogether(task, depends_on, instance) ==
    \A d \in dependencies \ instance : ~(d.task = task /\ d.depends_on = depends_on)

\* ModelSerializer.update: supplied values replace the instance's
Merged(d, data) ==
    [task |-> IF data.task = Absent THEN d.task ELSE data.task,
     depends_on |-> IF data.depends_on = Absent THEN d.depends_on ELSE data.depends_on,
     type |-> IF data.type = AbsentType THEN d.type ELSE data.type]

\* POST /task-dependencies/: task and depends_on are required, type defaults
CreateDependency(task, depends_on, type) ==
    LET data == [task |-> task, depends_on |-> depends_on, type |-> type]
    IN  /\ validate(data)
        /\ UniqueTogether(task, depends_on, {})
        /\ dependencies' = dependencies \cup
               {[data EXCEPT !.type = IF type = AbsentType THEN "Blocked By" ELSE type]}
        /\ UNCHANGED <<accessVars, hierarchyVars, last, req, peopleVars, audit, log, userRows,
                   scope>>

\* PUT /task-dependencies/{id}/: task and depends_on are required
UpdateDependency(d, task, depends_on, type) ==
    LET data == [task |-> task, depends_on |-> depends_on, type |-> type]
    IN  /\ d \in dependencies
        /\ validate(data)
        /\ UniqueTogether(task, depends_on, {d})
        /\ dependencies' = (dependencies \ {d}) \cup {Merged(d, data)}
        /\ UNCHANGED <<accessVars, hierarchyVars, last, req, peopleVars, audit, log, userRows,
                   scope>>

\* PATCH /task-dependencies/{id}/: any field may be missing; validate sees
\* only the supplied fields, the uniqueness check sees the merged row
PartialUpdateDependency(d, data) ==
    /\ d \in dependencies
    /\ validate(data)
    /\ UniqueTogether(Merged(d, data).task, Merged(d, data).depends_on, {d})
    /\ dependencies' = (dependencies \ {d}) \cup {Merged(d, data)}
    /\ UNCHANGED <<accessVars, hierarchyVars, last, req, peopleVars, audit, log, userRows,
                   scope>>

DestroyDependency(d) ==
    /\ d \in dependencies
    /\ dependencies' = dependencies \ {d}
    /\ UNCHANGED <<accessVars, hierarchyVars, last, req, peopleVars, audit, log, userRows,
                   scope>>

DependencyRows == [task : Tasks, depends_on : Tasks, type : DependencyTypes]

\* every task id of the model is a Task row
InitDeps ==
    /\ InitAccess
    /\ tasks = [t \in Tasks |-> [sprint |-> "s1", status |-> "To-do"]]
    /\ sprintStatus = [s \in Sprints |-> "Not Started"]
    /\ milestoneStatus = [m \in Milestones |-> "Not Started"]
    /\ projectStatus = [p \in Projects |-> "Not Started"]
    /\ last = NoRequest
    /\ req = [r \in Requests |-> IdleRequest]
    /\ assignee = [t \in Tasks |-> NoUser]
    /\ reporter = [t \in Tasks |-> NoUser]
    /\ audit = NoAudit
    /\ InitRecords

NextDeps ==
    \/ \E t \in Tasks, o \in Tasks, ty \in DependencyTypes \cup {AbsentType} :
          CreateDependency(t, o, ty)
    \/ \E d \in DependencyRows, t \in Tasks, o \in Tasks, ty \in DependencyTypes :
          UpdateDependency(d, t, o, ty)
    \/ \E d \in DependencyRows :
          \E data \in [task : Tasks \cup {Absent}, depends_on : Tasks \cup {Absent},
                       type : DependencyTypes \cup {AbsentType}] :
             PartialUpdateDependency(d, data)
    \/ \E d \in DependencyRows : DestroyDependency(d)

SpecDeps == InitDeps /\ [][NextDeps]_vars

\* C24: no TaskDependency row has task equal to depends_on.
NoSelfDependency ==
    \A d \in dependencies : d.task # d.depends_on

(***************************************************************************)
(* SpecScope: grants across two workspaces.  scope.members holds the       *)
(* WorkspaceMember rows <<workspace, user>>, scope.workspace the workspace *)
(* of each project, scope.grants the WorkspaceProjectAccess rows           *)
(* [workspace, user, project], the first two naming the workspace_member.  *)
(***************************************************************************)
ScopeWorkspaces == {"w1", "w2"}

\* WorkspaceViewSet.add_member
AddMemberTo(w, u) ==
    /\ scope' = [scope EXCEPT !.members = @ \cup {<<w, u>>}]
    /\ UNCHANGED <<accessVars, hierarchyVars, last, req, peopleVars, audit, log, userRows,
                   dependencies>>

\* WorkspaceViewSet.remove_member: the member's grants go with the row
RemoveMemberFrom(w, u) ==
    /\ <<w, u>> \in scope.members
    /\ scope' = [scope EXCEPT
            !.members = @ \ {<<w, u>>},
            !.grants = {g \in @ : ~(g.workspace = w /\ g.user = u)}]
    /\ UNCHANGED <<accessVars, hierarchyVars, last, req, peopleVars, audit, log, userRows,
                   dependencies>>

\* WorkspaceViewSet.grant_project_access on workspace w: 400 unless the user
\* is a member of w and the project is in w; then update_or_create
GrantAccessIn(w, u, p) ==
    /\ <<w, u>> \in scope.members
    /\ scope.workspace[p] = w
    /\ scope' = [scope EXCEPT !.grants = @ \cup {[workspace |-> w, user |-> u, project |-> p]}]
    /\ UNCHANGED <<accessVars, hierarchyVars, last, req, peopleVars, audit, log, userRows,
                   dependencies>>

\* ProjectViewSet.perform_update with ProjectCreateUpdateSerializer, whose
\* workspace field is writable
UpdateProjectWorkspace(p, w) ==
    /\ scope' = [scope EXCEPT !.workspace[p] = w]
    /\ UNCHANGED <<accessVars, hierarchyVars, last, req, peopleVars, audit, log, userRows,
                   dependencies>>

InitScope ==
    /\ InitAccess
    /\ tasks = [t \in Tasks |-> NoTask]
    /\ sprintStatus = [s \in Sprints |-> "Not Started"]
    /\ milestoneStatus = [m \in Milestones |-> "Not Started"]
    /\ projectStatus = [p \in Projects |-> "Not Started"]
    /\ last = NoRequest
    /\ req = [r \in Requests |-> IdleRequest]
    /\ assignee = [t \in Tasks |-> NoUser]
    /\ reporter = [t \in Tasks |-> NoUser]
    /\ audit = NoAudit
    /\ log = <<>>
    /\ userRows = Users
    /\ dependencies = {}
    /\ scope = [members |-> {}, workspace |-> [p \in Projects |-> "w1"], grants |-> {}]

NextScope ==
    \/ \E w \in ScopeWorkspaces, u \in Users : AddMemberTo(w, u)
    \/ \E w \in ScopeWorkspaces, u \in Users : RemoveMemberFrom(w, u)
    \/ \E w \in ScopeWorkspaces, u \in Users, p \in Projects : GrantAccessIn(w, u, p)
    \/ \E p \in Projects, w \in ScopeWorkspaces : UpdateProjectWorkspace(p, w)

SpecScope == InitScope /\ [][NextScope]_vars

\* C26: every WorkspaceProjectAccess row links a WorkspaceMember and a
\* Project of the same workspace.
GrantScoped ==
    \A g \in scope.grants :
        /\ <<g.workspace, g.user>> \in scope.members
        /\ scope.workspace[g.project] = g.workspace

(***************************************************************************)
(* SpecStatus: the operations that set Task.status.  The serializer's      *)
(* ChoiceField and move_task_to_column check the value against the         *)
(* choices; change_status assigns request.data['status'] and calls save(), *)
(* which does not run the field's validators.                              *)
(***************************************************************************)
\* the values a request may carry: two choices, a string that is no choice
\* and the empty string
RequestedStatuses == {"To-do", "Done", "Archived", ""}

\* TaskViewSet.change_status: 400 when the value is missing or empty
ChangeStatus(t, new_status) ==
    /\ tasks[t] # NoTask
    /\ new_status # ""
    /\ TaskSave("update", t, tasks[t].sprint, new_status)

\* kanban_service.move_task_to_column
MoveTaskToColumn(t, new_status) ==
    /\ new_status \in TaskStatuses
    /\ tasks[t] # NoTask
    /\ TaskSave("update", t, tasks[t].sprint, new_status)

\* TaskViewSet create / update through TaskCreateUpdateSerializer
SaveThroughSerializer(t, sprint, new_status) ==
    /\ new_status \in TaskStatuses
    /\ TaskSave(IF tasks[t] = NoTask THEN "create" ELSE "update", t, sprint, new_status)

NextStatus ==
    \/ \E t \in Tasks, st \in RequestedStatuses : ChangeStatus(t, st)
    \/ \E t \in Tasks, st \in RequestedStatuses : MoveTaskToColumn(t, st)
    \/ \E t \in Tasks, s \in Sprints, st \in RequestedStatuses :
          SaveThroughSerializer(t, s, st)

SpecStatus == InitCascade /\ [][NextStatus]_vars

\* C27: every Task's status is one of To-do, In Progress, Review, Done.
TaskStatusDomain ==
    \A t \in Tasks : tasks[t] # NoTask => tasks[t].status \in TaskStatuses


=============================================================================
